---- MODULE Spec2Model ----
(***************************************************************************)
(* BiasClean v2.0 (src/BiasClean_V2.0.py): the BiasClean engine, the       *)
(* statistical diagnosis and the two rebalancing policies.                  *)
(*                                                                          *)
(* Numbers: weights are kept in hundredths, real-valued quantities are      *)
(* exact rationals [num, den] (den > 0) wherever the code compares or       *)
(* truncates them.  A dataset is a DataFrame with a unique (Range) index:   *)
(* a set of columns and a sequence of rows, a row being a function from     *)
(* the columns to values.  An optional value (Python None) is a sequence    *)
(* of length 0 or 1.                                                        *)
(***************************************************************************)
EXTENDS Integers, Sequences, FiniteSets, TLC

VARIABLES
    weights,            \* self.weights: the 7x7 domain weight table
    domain,             \* self.domain ("None" until a fit succeeds)
    domain_weights,     \* self.domain_weights (<<>> is None)
    detected_biases,    \* self.detected_biases (<<>> is None)
    mitigation_impact,  \* self.mitigation_impact (<<>> is None)
    df,                 \* the caller's dataset
    diag,               \* the caller's DiagnosisResult (<<>> is None)
    df_after,           \* the caller's corrected dataset (<<>> is None)
    out,                \* what the last call returned or raised
    last_fit,           \* history: the last domain a fit succeeded with
    instances,          \* the selections of the engines that concurrent callers hold
    callers             \* the concurrent callers: their engine, domain, dataset, position

vars == <<weights, domain, domain_weights, detected_biases, mitigation_impact,
          df, diag, df_after, out, last_fit, instances, callers>>

engine == <<weights, domain, domain_weights, detected_biases, mitigation_impact>>

sharing == <<instances, callers>>

(***************************************************************************)
(* Generic helpers                                                          *)
(***************************************************************************)
Abs(x) == IF x < 0 THEN -x ELSE x

Min(a, b) == IF a <= b THEN a ELSE b

Max(a, b) == IF a >= b THEN a ELSE b

\* Python int() of a non-negative rational n/d (d > 0): truncation.
Floor(n, d) == n \div d

RECURSIVE Gcd(_, _)
Gcd(a, b) == IF b = 0 THEN a ELSE Gcd(b, a % b)

\* The rational n/d in lowest terms with a positive denominator.
Rat(n, d) ==
    LET s == IF d < 0 THEN -1 ELSE 1
        g == Gcd(Abs(n), Abs(d))
    IN  IF n = 0 THEN [num |-> 0, den |-> 1]
        ELSE [num |-> (s * n) \div g, den |-> (s * d) \div g]

RatAdd(x, y) == Rat(x.num * y.den + y.num * x.den, x.den * y.den)

RatSub(x, y) == Rat(x.num * y.den - y.num * x.den, x.den * y.den)

RatMul(x, y) == Rat(x.num * y.num, x.den * y.den)

RatDiv(x, y) == Rat(x.num * y.den, x.den * y.num)

RatLt(x, y) == x.num * y.den < y.num * x.den

RatLe(x, y) == x.num * y.den <= y.num * x.den

RatAbs(x) == [num |-> Abs(x.num), den |-> x.den]

RECURSIVE SeqSum(_)
SeqSum(s) == IF s = <<>> THEN 0 ELSE Head(s) + SeqSum(Tail(s))

RECURSIVE RatSum(_)
RatSum(s) == IF s = <<>> THEN Rat(0, 1) ELSE RatAdd(Head(s), RatSum(Tail(s)))

Range(s) == {s[i] : i \in DOMAIN s}

\* The subsequence of s at the positions lo..hi that satisfy Keep, by halves.
RECURSIVE SelectRange(_, _, _, _)
SelectRange(s, Keep(_), lo, hi) ==
    IF lo > hi THEN <<>>
    ELSE IF lo = hi THEN (IF Keep(lo) THEN <<s[lo]>> ELSE <<>>)
    ELSE SelectRange(s, Keep, lo, (lo + hi) \div 2)
             \o SelectRange(s, Keep, (lo + hi) \div 2 + 1, hi)

\* The subsequence of s at the positions from i on that satisfy Keep.
SelectIdx(s, Keep(_), i) == SelectRange(s, Keep, i, Len(s))

\* All subsets of S with exactly k elements (DataFrame.sample without
\* replacement can return any of them).
RECURSIVE KSubsets(_, _)
KSubsets(S, k) ==
    IF k = 0 THEN {{}}
    ELSE IF Cardinality(S) < k THEN {}
    ELSE LET x == CHOOSE e \in S : TRUE
         IN  KSubsets(S \ {x}, k) \cup {T \cup {x} : T \in KSubsets(S \ {x}, k - 1)}

(***************************************************************************)
(* DomainWeightTable: _load_domain_weights.  A weight map is a sequence of  *)
(* <<feature, weight in hundredths>> in the dict's declaration order.       *)
(***************************************************************************)
\* The table with the justice weight of Gender doubled: the map sums to 1.05.
load_domain_weights_unnormalised ==
    [justice |-> << <<"Ethnicity", 25>>, <<"SocioeconomicStatus", 20>>, <<"Region", 15>>,
                    <<"Age", 15>>, <<"MigrationStatus", 10>>, <<"DisabilityStatus", 10>>,
                    <<"Gender", 10>> >>,
     health |-> << <<"Ethnicity", 25>>, <<"SocioeconomicStatus", 20>>,
                   <<"DisabilityStatus", 15>>, <<"Gender", 15>>, <<"Region", 10>>,
                   <<"Age", 10>>, <<"MigrationStatus", 5>> >>,
     finance |-> << <<"SocioeconomicStatus", 30>>, <<"Region", 20>>, <<"Ethnicity", 20>>,
                    <<"Age", 10>>, <<"Gender", 10>>, <<"MigrationStatus", 5>>,
                    <<"DisabilityStatus", 5>> >>,
     education |-> << <<"SocioeconomicStatus", 25>>, <<"Ethnicity", 20>>, <<"Region", 15>>,
                      <<"DisabilityStatus", 15>>, <<"Gender", 10>>, <<"Age", 10>>,
                      <<"MigrationStatus", 5>> >>,
     hiring |-> << <<"Ethnicity", 25>>, <<"Gender", 20>>, <<"DisabilityStatus", 15>>,
                   <<"SocioeconomicStatus", 15>>, <<"Region", 10>>, <<"Age", 10>>,
                   <<"MigrationStatus", 5>> >>,
     business |-> << <<"Ethnicity", 25>>, <<"Gender", 20>>, <<"SocioeconomicStatus", 15>>,
                     <<"Region", 15>>, <<"Age", 10>>, <<"DisabilityStatus", 10>>,
                     <<"MigrationStatus", 5>> >>,
     governance |-> << <<"Ethnicity", 25>>, <<"Gender", 20>>, <<"SocioeconomicStatus", 15>>,
                       <<"Region", 15>>, <<"MigrationStatus", 10>>, <<"DisabilityStatus", 10>>,
                       <<"Age", 5>> >>]

load_domain_weights ==
    [justice |-> << <<"Ethnicity", 25>>, <<"SocioeconomicStatus", 20>>, <<"Region", 15>>,
                    <<"Age", 15>>, <<"MigrationStatus", 10>>, <<"DisabilityStatus", 10>>,
                    <<"Gender", 5>> >>,
     health |-> << <<"Ethnicity", 25>>, <<"SocioeconomicStatus", 20>>,
                   <<"DisabilityStatus", 15>>, <<"Gender", 15>>, <<"Region", 10>>,
                   <<"Age", 10>>, <<"MigrationStatus", 5>> >>,
     finance |-> << <<"SocioeconomicStatus", 30>>, <<"Region", 20>>, <<"Ethnicity", 20>>,
                    <<"Age", 10>>, <<"Gender", 10>>, <<"MigrationStatus", 5>>,
                    <<"DisabilityStatus", 5>> >>,
     education |-> << <<"SocioeconomicStatus", 25>>, <<"Ethnicity", 20>>, <<"Region", 15>>,
                      <<"DisabilityStatus", 15>>, <<"Gender", 10>>, <<"Age", 10>>,
                      <<"MigrationStatus", 5>> >>,
     hiring |-> << <<"Ethnicity", 25>>, <<"Gender", 20>>, <<"DisabilityStatus", 15>>,
                   <<"SocioeconomicStatus", 15>>, <<"Region", 10>>, <<"Age", 10>>,
                   <<"MigrationStatus", 5>> >>,
     business |-> << <<"Ethnicity", 25>>, <<"Gender", 20>>, <<"SocioeconomicStatus", 15>>,
                     <<"Region", 15>>, <<"Age", 10>>, <<"DisabilityStatus", 10>>,
                     <<"MigrationStatus", 5>> >>,
     governance |-> << <<"Ethnicity", 25>>, <<"Gender", 20>>, <<"SocioeconomicStatus", 15>>,
                       <<"Region", 15>>, <<"MigrationStatus", 10>>, <<"DisabilityStatus", 10>>,
                       <<"Age", 5>> >>]

\* The features of a weight map, in declaration order.
MapFeatures(wm) == [i \in DOMAIN wm |-> wm[i][1]]

InMap(wm, f) == \E i \in DOMAIN wm : wm[i][1] = f

(***************************************************************************)
(* Datasets                                                                 *)
(***************************************************************************)
NRows(d) == Len(d.rows)

\* df[feature] == group, as the set of index labels of the matching rows.
GroupIdx(d, f, g) == {i \in 1..NRows(d) : d.rows[i][f] = g}

CountOf(d, f, g) == Cardinality(GroupIdx(d, f, g))

\* The index labels at which a category of the column appears first.
FirstAppearances(d, f) ==
    {i \in 1..NRows(d) : \A j \in 1..(i - 1) : d.rows[j][f] # d.rows[i][f]}

\* <<category, count>> for the categories of a column in order of first
\* appearance.
RECURSIVE Tally(_, _, _, _)
Tally(d, f, firsts, acc) ==
    IF firsts = {} THEN acc
    ELSE LET i == CHOOSE x \in firsts : \A y \in firsts : x <= y
         IN  Tally(d, f, firsts \ {i},
                   Append(acc, <<d.rows[i][f], CountOf(d, f, d.rows[i][f])>>))

\* Insert a pair behind every pair whose count is at least as large.
InsertDesc(sorted, x) ==
    LET p == Cardinality({j \in DOMAIN sorted : sorted[j][2] >= x[2]})
    IN  SubSeq(sorted, 1, p) \o <<x>> \o SubSeq(sorted, p + 1, Len(sorted))

RECURSIVE SortDesc(_, _, _)
SortDesc(t, i, acc) == IF i > Len(t) THEN acc ELSE SortDesc(t, i + 1, InsertDesc(acc, t[i]))

\* df[feature].value_counts(): <<category, count>>, most frequent first;
\* categories with equal counts keep the order of their first appearance.
ValueCounts(d, f) == SortDesc(Tally(d, f, FirstAppearances(d, f), <<>>), 1, <<>>)

\* The index of value_counts(): the distinct categories in that order.
value_counts(d, f) == LET vc == ValueCounts(d, f) IN [i \in DOMAIN vc |-> vc[i][1]]

\* A drop that also loses every row equal to a dropped one.
DropByValue(d, idx) ==
    [cols |-> d.cols,
     rows |-> SelectIdx(d.rows, LAMBDA i : \A j \in idx : d.rows[j] # d.rows[i], 1)]

\* df.drop(indices): the rows whose index label is not in the set.
Drop(d, idx) ==
    [cols |-> d.cols, rows |-> SelectIdx(d.rows, LAMBDA i : i \notin idx, 1)]

(***************************************************************************)
(* DisparityScorer: _calculate_disparity and score.  np.log is evaluated    *)
(* in fixed point: Log2Fix(a, b) is log2(a/b) in 1/1024ths (integer part    *)
(* by halving or doubling, ten fractional bits by repeated squaring),       *)
(* LnMilli(a, b) is ln(a/b) in thousandths; ln(1) is exactly 0.             *)
(***************************************************************************)
RECURSIVE Log2Norm(_, _, _)
Log2Norm(a, b, e) ==
    IF a >= 2 * b THEN Log2Norm(a, 2 * b, e + 1)
    ELSE IF a < b THEN Log2Norm(2 * a, b, e - 1)
    ELSE <<a, b, e>>

RECURSIVE Log2Bits(_, _, _)
Log2Bits(x, n, acc) ==
    IF n = 0 THEN acc
    ELSE LET y == (x * x) \div 4096
         IN  IF y >= 8192 THEN Log2Bits(y \div 2, n - 1, 2 * acc + 1)
             ELSE Log2Bits(y, n - 1, 2 * acc)

Log2Fix(a, b) ==
    LET n == Log2Norm(a, b, 0)
    IN  n[3] * 1024 + Log2Bits((n[1] * 4096) \div n[2], 10, 0)

LnMilli(a, b) ==
    LET l == Log2Fix(a, b)
    IN  IF l >= 0 THEN (l * 693) \div 1024 ELSE -(((-l) * 693) \div 1024)

\* The mean of ln(proportion / expected) without the absolute value.
calculate_disparity_signed(d, f) ==
    IF f \notin d.cols THEN 0
    ELSE LET vc == value_counts(d, f)
             k == Len(vc)
             N == NRows(d)
             term(i) == LET c == CountOf(d, f, vc[i])
                        IN  IF c * k > 0 THEN LnMilli(c * k, N) ELSE 1000
         IN  (SeqSum([i \in 1..k |-> term(i)]) * 1000) \div k

\* _calculate_disparity: 0 for an absent column, else the mean over the
\* categories of |ln(proportion / expected)|, in millionths.
calculate_disparity(d, f) ==
    IF f \notin d.cols THEN 0
    ELSE LET vc == value_counts(d, f)
             k == Len(vc)
             N == NRows(d)
             term(i) == LET c == CountOf(d, f, vc[i])
                        IN  IF c * k > 0 THEN Abs(LnMilli(c * k, N)) ELSE 1000
         IN  (SeqSum([i \in 1..k |-> term(i)]) * 1000) \div k

\* score: sum over the weight map of weight * disparity, in millionths (the
\* weights are hundredths).
BiasScore(wm, d) ==
    SeqSum([i \in DOMAIN wm |-> wm[i][2] * calculate_disparity(d, wm[i][1])]) \div 100

(***************************************************************************)
(* StatisticalDiagnoser: comprehensive_statistical_diagnosis                *)
(***************************************************************************)
\* alpha, in thousandths, of the call: the default 0.05.
DefaultAlpha == 50

\* scipy.stats.chisquare returns p < alpha exactly when the statistic exceeds
\* the upper-alpha quantile of chi-square with k-1 degrees of freedom; the
\* quantiles (thousandths, rounded down) for alpha = 0.05 and alpha = 0.01.
ChiSquareCritical(alpha, dof) ==
    IF alpha = 50
    THEN <<3841, 5991, 7814, 9487, 11070, 12591, 14067>>[dof]
    ELSE <<6634, 9210, 11344, 13276, 15086, 16811, 18475>>[dof]

\* sum of (observed - expected)^2 / N: the squares divided by the total.
ChiSquareByTotal(counts) ==
    LET k == Len(counts)
        N == SeqSum(counts)
    IN  Rat(k * SeqSum([i \in 1..k |-> counts[i] * counts[i]]) - N * N, k * N)

\* sum of (observed - expected)^2 / expected with expected = N / k, which is
\* (k * sum(observed^2) - N^2) / N.
ChiSquare(counts) ==
    LET k == Len(counts)
        N == SeqSum(counts)
    IN  Rat(k * SeqSum([i \in 1..k |-> counts[i] * counts[i]]) - N * N, N)

\* The statistic in thousandths, rounded down.
RatMilli(x) == (x.num \div x.den) * 1000 + ((x.num % x.den) * 1000) \div x.den

\* With one category the test has 0 degrees of freedom and the p-value is nan,
\* which compares False with alpha.
PValue(counts, alpha) ==
    IF Len(counts) < 2 THEN "nan"
    ELSE IF RatMilli(ChiSquare(counts)) > ChiSquareCritical(alpha, Len(counts) - 1)
         THEN "below_alpha" ELSE "not_below_alpha"

\* p_value > alpha
SignificantAbove(counts, alpha) == PValue(counts, alpha) = "not_below_alpha"

Significant(counts, alpha) == PValue(counts, alpha) = "below_alpha"

EffectSize(counts) ==
    LET x == ChiSquare(counts) IN Rat(x.num, x.den * SeqSum(counts))

\* One entry of diagnostic_results for a count vector.
FeatureTest(f, cats, counts, alpha) ==
    [feature |-> f,
     chi2_statistic |-> ChiSquare(counts),
     p_value |-> PValue(counts, alpha),
     significant_bias |-> Significant(counts, alpha),
     effect_size |-> EffectSize(counts),
     observed_counts |-> [i \in DOMAIN cats |-> <<cats[i], counts[i]>>],
     expected_count |-> Rat(SeqSum(counts), Len(counts))]

ObservedCounts(d, f) == LET vc == ValueCounts(d, f) IN [i \in DOMAIN vc |-> vc[i][2]]

\* [f for f in df.columns if f in domain_weights], the columns in the order
\* the frame lists them.
ProtectedFeaturesByColumn(wm, d) ==
    LET columns == <<"Age", "Ethnicity", "Gender", "Income", "Region">>
    IN  SelectIdx(columns, LAMBDA i : columns[i] \in d.cols /\ InMap(wm, columns[i]), 1)

\* protected_features = [f for f in domain_weights if f in df.columns]
ProtectedFeatures(wm, d) ==
    SelectIdx(MapFeatures(wm), LAMBDA i : wm[i][1] \in d.cols, 1)

comprehensive_statistical_diagnosis(d, wm, alpha) ==
    LET pf == ProtectedFeatures(wm, d)
        tests == [i \in DOMAIN pf |->
                    FeatureTest(pf[i], value_counts(d, pf[i]), ObservedCounts(d, pf[i]), alpha)]
        significant_biases == Cardinality({i \in DOMAIN tests : tests[i].significant_bias})
    IN  [feature_tests |-> tests,
         significant_bias_count |-> significant_biases,
         requires_mitigation |-> significant_biases > 0,
         dataset_size |-> NRows(d)]

(***************************************************************************)
(* RebalancePlanner and RebalanceExecutor, unconstrained policy:            *)
(* _calculate_rebalancing_plan and _evidence_based_rebalancing              *)
(***************************************************************************)
\* {group: change}, negative = remove, positive = add, in value_counts order.
\* With c the group size, N the rows and k the categories:
\*   int(c * ((c/N - 1/k) / (c/N)) * 0.7) = int(7 (ck - N) / (10 k))
\*   int(c * ((1/k - c/N) / (1/k)) * 0.8) = int(8 c (N - ck) / (10 N))
\* Removes 70% of the group instead of 70% of its excess.
RemoveChangeOfGroup(c, N, k) == -Floor(7 * c, 10)

RemoveChange(c, N, k) == -Floor(7 * (c * k - N), 10 * k)

\* The addition computed from the deviation and the expected proportion cut
\* to three decimals: int(c * (0.233 / 0.333) * 0.8).
AddChangeThreeDecimals(c, N, k) ==
    Floor(8 * c * Floor(1000 * (N - c * k), N * k), 10 * Floor(1000, k))

AddChange(c, N, k) == Floor(8 * c * (N - c * k), 10 * N)

PlanChange(c, N, k) ==
    IF c * k > N THEN RemoveChange(c, N, k)
    ELSE IF c * k < N THEN AddChange(c, N, k)
    ELSE 0

calculate_rebalancing_plan(d, f) ==
    LET vc == value_counts(d, f)
    IN  [i \in DOMAIN vc |->
           [feature |-> f, group |-> vc[i],
            change |-> PlanChange(CountOf(d, f, vc[i]), NRows(d), Len(vc))]]

\* A target test that forgets stats['significant_bias'].
IsTargetByEffectOnly(t) == RatLt(Rat(1, 2), t.effect_size)

\* stats['significant_bias'] and stats['effect_size'] >= 0.5
IsTargetInclusive(t) == t.significant_bias /\ RatLe(Rat(1, 2), t.effect_size)

\* stats['significant_bias'] and stats['effect_size'] > 0.5
IsTarget(t) == t.significant_bias /\ RatLt(Rat(1, 2), t.effect_size)

\* significant_features after sort(key=effect_size, reverse=True): the sort is
\* stable, entries of equal effect size keep the order of the diagnosis.
SurgicalTargets(dg) ==
    LET ts == SelectIdx(dg.feature_tests, LAMBDA i : IsTarget(dg.feature_tests[i]), 1)
        before(i, j) == \/ RatLt(ts[j].effect_size, ts[i].effect_size)
                        \/ ts[i].effect_size = ts[j].effect_size /\ i < j
        rank(i) == 1 + Cardinality({j \in DOMAIN ts : before(j, i)})
    IN  [p \in DOMAIN ts |-> ts[CHOOSE i \in DOMAIN ts : rank(i) = p].feature]

RECURSIVE Flatten(_)
Flatten(ss) == IF ss = <<>> THEN <<>> ELSE Head(ss) \o Flatten(Tail(ss))

RECURSIVE UnionAll(_)
UnionAll(ss) == IF ss = <<>> THEN {} ELSE Head(ss) \cup UnionAll(Tail(ss))

\* One sample without replacement per removal: every way to pick, for each
\* entry of pairs, n of the rows of its group.
RECURSIVE RemovalSamples(_, _)
RemovalSamples(d, pairs) ==
    IF pairs = <<>> THEN {<<>>}
    ELSE {<<S>> \o rest : S \in KSubsets(GroupIdx(d, Head(pairs).feature, Head(pairs).group),
                                         Head(pairs).n),
                          rest \in RemovalSamples(d, Tail(pairs))}

\* One sample with replacement per addition: n index labels of the group.
RECURSIVE AdditionSamples(_, _)
AdditionSamples(d, pairs) ==
    IF pairs = <<>> THEN {<<>>}
    ELSE {<<S>> \o rest : S \in [1..Head(pairs).n ->
                                   GroupIdx(d, Head(pairs).feature, Head(pairs).group)],
                          rest \in AdditionSamples(d, Tail(pairs))}

\* Cap additions to prevent explosion.
AdditionCap == 1000

\* The removals of step 3: n_remove = min(abs(change), group_mask.sum()) > 0.
SurgicalRemovals(d, plans) ==
    LET all == Flatten(plans)
        n(e) == Min(Abs(e.change), CountOf(d, e.feature, e.group))
        sel == SelectIdx(all, LAMBDA i : all[i].change < 0 /\ n(all[i]) > 0, 1)
    IN  [i \in DOMAIN sel |-> [feature |-> sel[i].feature, group |-> sel[i].group,
                               change |-> sel[i].change, n |-> n(sel[i])]]

\* Additions whose amounts are computed again on df_rebalanced, after the
\* removals, instead of being taken from the plans made on df.
SurgicalAdditionsRecomputed(dr, plans) ==
    LET all == Flatten(plans)
        change(e) == PlanChange(CountOf(dr, e.feature, e.group), NRows(dr),
                                Len(value_counts(dr, e.feature)))
        sel == SelectIdx(all, LAMBDA i : /\ all[i].change > 0
                                         /\ Min(change(all[i]), AdditionCap) > 0
                                         /\ CountOf(dr, all[i].feature, all[i].group) > 0, 1)
    IN  [i \in DOMAIN sel |-> [feature |-> sel[i].feature, group |-> sel[i].group,
                               change |-> change(sel[i]),
                               n |-> Min(change(sel[i]), AdditionCap)]]

\* The additions of step 4 on df_rebalanced: n_add = min(change, 1000),
\* applied when n_add > 0 and the group still has rows.
SurgicalAdditions(dr, plans) ==
    LET all == Flatten(plans)
        sel == SelectIdx(all, LAMBDA i : /\ all[i].change > 0
                                         /\ Min(all[i].change, AdditionCap) > 0
                                         /\ CountOf(dr, all[i].feature, all[i].group) > 0, 1)
    IN  [i \in DOMAIN sel |-> [feature |-> sel[i].feature, group |-> sel[i].group,
                               change |-> sel[i].change,
                               n |-> Min(sel[i].change, AdditionCap)]]

\* A concatenation that appends a row drawn several times only once.
ConcatDistinct(dr, srcs) ==
    [cols |-> dr.cols,
     rows |-> dr.rows \o Flatten([i \in DOMAIN srcs |->
                LET firsts == {j \in DOMAIN srcs[i] :
                                 \A k \in 1..(j - 1) : srcs[i][k] # srcs[i][j]}
                    nth(n) == CHOOSE p \in firsts : Cardinality({q \in firsts : q < p}) = n - 1
                IN  [n \in 1..Cardinality(firsts) |-> dr.rows[srcs[i][nth(n)]]]])]

\* pd.concat([df_rebalanced] + addition_data, ignore_index=True)
Concat(dr, srcs) ==
    [cols |-> dr.cols,
     rows |-> dr.rows \o Flatten([i \in DOMAIN srcs |->
                                    [j \in DOMAIN srcs[i] |-> dr.rows[srcs[i][j]]]])]

\* return df: the caller's own object, with nothing removed or added.
ReturnInput(d) ==
    [error |-> "", data |-> d, removed |-> <<>>, total_removed |-> 0, added |-> <<>>,
     proposed |-> <<>>, returned_object |-> "input", draws |-> <<>>]

\* return df.copy(): a new object equal to the input, with nothing removed or
\* added.  returned_object tells the object a result is: "new" for a
\* DataFrame made by copy(), drop() or concat(), "input" for the caller's.
\* draws holds what the random generator gave the call: the rows each
\* sample() drew and the synthetic rows each jitter made (<<>> if none).
ReturnCopy(d) ==
    [error |-> "", data |-> d, removed |-> <<>>, total_removed |-> 0, added |-> <<>>,
     proposed |-> <<>>, returned_object |-> "new", draws |-> <<>>]

\* The results of _evidence_based_rebalancing(df, diagnostic_results) when
\* the removal samples are drawn from Removals(df, pairs) and the addition
\* samples from Additions(df_rebalanced, pairs): the dataset, with the
\* removals and additions made.
SurgicalResults(d, dg, Removals(_, _), Additions(_, _)) ==
    LET targets == SurgicalTargets(dg)
    IN  IF targets = <<>>
        THEN {ReturnCopy(d)}
        ELSE IF \E i \in DOMAIN targets : targets[i] \notin d.cols
        THEN {[error |-> "KeyError", data |-> d, removed |-> <<>>, total_removed |-> 0,
               added |-> <<>>, proposed |-> <<>>, returned_object |-> "none",
               draws |-> <<>>]}
        ELSE LET plans == [i \in DOMAIN targets |-> calculate_rebalancing_plan(d, targets[i])]
                 rem == SurgicalRemovals(d, plans)
             IN  UNION {
                   LET removal_indices == UnionAll(rs)
                       df_rebalanced == Drop(d, removal_indices)
                       adds == SurgicalAdditions(df_rebalanced, plans)
                   IN  {[error |-> "",
                         data |-> Concat(df_rebalanced, as),
                         removed |-> [i \in DOMAIN rem |->
                                        [feature |-> rem[i].feature, group |-> rem[i].group,
                                         planned |-> Abs(rem[i].change),
                                         n |-> Cardinality(rs[i])]],
                         total_removed |-> Cardinality(removal_indices),
                         added |-> [i \in DOMAIN adds |->
                                      [feature |-> adds[i].feature, group |-> adds[i].group,
                                       n |-> Len(as[i])]],
                         proposed |-> <<>>,
                         returned_object |-> "new",
                         draws |-> <<rs, as>>]
                        : as \in Additions(df_rebalanced, adds)}
                   : rs \in Removals(d, rem)}

\* Every result _evidence_based_rebalancing can return or raise for (df,
\* diagnostic_results), over all the samples it can draw.
evidence_based_rebalancing(d, dg) == SurgicalResults(d, dg, RemovalSamples, AdditionSamples)

(***************************************************************************)
(* Budget-constrained policy: _industry_smote_rebalancing                   *)
(***************************************************************************)
\* max_data_loss of transform_industry and of transform(mode='industry'),
\* in hundredths.
DefaultMaxDataLoss == 8

\* total_removal_budget = int(len(df) * max_data_loss)
TotalRemovalBudget(N, max_data_loss) == Floor(N * max_data_loss, 100)

\* proportion > expected * 1.2.  In IEEE doubles (1.0 / k) * 1.2 rounds below
\* 1.2 / k for k = 3, 6 and 7, so a proportion of exactly 1.2 / k compares
\* greater there; for the other k up to 7 the comparison is the exact one.
OverRepresented(c, N, k) ==
    \/ 10 * c * k > 12 * N
    \/ 10 * c * k = 12 * N /\ k \in {3, 6, 7}

\* min(int(c * ((c/N - 1/k) / (c/N)) * 0.3), int(total_removal_budget * 0.5))
ProposedRemoval(c, N, k, budget) ==
    Min(Floor(3 * (c * k - N), 10 * k), Floor(budget, 2))

\* removal_plan: {(feature, group): n_remove} over the targets of the
\* diagnosis in its order, the groups in value_counts order, n_remove > 0.
RemovalPlan(d, dg, budget) ==
    LET ts == SelectIdx(dg.feature_tests, LAMBDA i : IsTarget(dg.feature_tests[i]), 1)
        perFeature(f) ==
            LET vc == value_counts(d, f)
                k == Len(vc)
                c(i) == CountOf(d, f, vc[i])
                sel == SelectIdx(vc, LAMBDA i : /\ OverRepresented(c(i), NRows(d), k)
                                                /\ ProposedRemoval(c(i), NRows(d), k, budget) > 0, 1)
            IN  [j \in DOMAIN sel |->
                   [feature |-> f, group |-> sel[j],
                    n |-> ProposedRemoval(CountOf(d, f, sel[j]), NRows(d), k, budget)]]
    IN  Flatten([i \in DOMAIN ts |-> perFeature(ts[i].feature)])

\* The rows the first j proposals ask for.
SumTo(props, j) == SeqSum([i \in 1..j |-> props[i].n])

\* Fits without the test against the remaining budget.
FitsAnyBudget(d, p, current_removals, budget) == CountOf(d, p.feature, p.group) > p.n

\* A proposal is executed when it fits the remaining budget and the group
\* holds more rows than it removes.
Fits(d, p, current_removals, budget) ==
    /\ current_removals + p.n <= budget
    /\ CountOf(d, p.feature, p.group) > p.n

\* An execution that ends at the first proposal that does not fit.
ConsumeBudgetUntilSkip(d, props, current_removals, budget) ==
    SelectIdx(props, LAMBDA i : \A j \in 1..i :
                  Fits(d, props[j], current_removals + SumTo(props, j - 1), budget), 1)

\* The proposals executed, in order, with current_removals accumulated.
RECURSIVE ConsumeBudget(_, _, _, _)
ConsumeBudget(d, props, current_removals, budget) ==
    IF props = <<>> THEN <<>>
    ELSE IF Fits(d, Head(props), current_removals, budget)
         THEN <<Head(props)>> \o ConsumeBudget(d, Tail(props), current_removals + Head(props).n, budget)
         ELSE ConsumeBudget(d, Tail(props), current_removals, budget)

\* proportion < expected * 0.8.  In IEEE doubles (1.0 / k) * 0.8 rounds above
\* 0.8 / k for k = 5, so a proportion of exactly 0.8 / k compares less there.
UnderRepresented(c, N, k) ==
    \/ 10 * c * k < 8 * N
    \/ 10 * c * k = 8 * N /\ k = 5

\* int(len(df_rebalanced) * expected * ((expected - proportion) / expected) * 0.8)
NNeeded(c, N, k) == Floor(8 * (N - c * k), 10 * k)

\* n_to_add: min(n_needed, 3 * len(group_data)) with two rows or more,
\* min(n_needed, 10) with a single row.
NToAdd(n_needed, len) == IF len >= 2 THEN Min(n_needed, len * 3) ELSE Min(n_needed, 10)

\* Duplications planned for every need of at least one row.
SmotePlanEveryNeed(dr, dg) ==
    LET ts == SelectIdx(dg.feature_tests,
                        LAMBDA i : /\ dg.feature_tests[i].significant_bias
                                   /\ dg.feature_tests[i].feature \in dr.cols, 1)
        perFeature(f) ==
            LET vc == value_counts(dr, f)
                k == Len(vc)
                c(i) == CountOf(dr, f, vc[i])
                sel == SelectIdx(vc, LAMBDA i : /\ UnderRepresented(c(i), NRows(dr), k)
                                                /\ NNeeded(c(i), NRows(dr), k) > 0, 1)
            IN  [j \in DOMAIN sel |->
                   [feature |-> f, group |-> sel[j],
                    n |-> NToAdd(NNeeded(CountOf(dr, f, sel[j]), NRows(dr), k),
                                 CountOf(dr, f, sel[j]))]]
    IN  Flatten([i \in DOMAIN ts |-> perFeature(ts[i].feature)])

\* The duplications of step 2 on df_rebalanced, in order.
SmotePlan(dr, dg) ==
    LET ts == SelectIdx(dg.feature_tests,
                        LAMBDA i : /\ dg.feature_tests[i].significant_bias
                                   /\ dg.feature_tests[i].feature \in dr.cols, 1)
        perFeature(f) ==
            LET vc == value_counts(dr, f)
                k == Len(vc)
                c(i) == CountOf(dr, f, vc[i])
                sel == SelectIdx(vc, LAMBDA i : /\ UnderRepresented(c(i), NRows(dr), k)
                                                /\ NNeeded(c(i), NRows(dr), k) > 2, 1)
            IN  [j \in DOMAIN sel |->
                   [feature |-> f, group |-> sel[j],
                    n |-> NToAdd(NNeeded(CountOf(dr, f, sel[j]), NRows(dr), k),
                                 CountOf(dr, f, sel[j]))]]
    IN  Flatten([i \in DOMAIN ts |-> perFeature(ts[i].feature)])

\* The columns select_dtypes(include=[np.number]) returns.
NumericColumns == {"Income", "Age"}

\* Variations of up to 10% whatever the size of the group.
VariationsWide(len) == {-10, 0, 10}

\* np.random.uniform(-0.05, 0.05) and (-0.10, 0.10), in hundredths: the ends
\* and the middle of the interval.
Variations(len) == IF len >= 2 THEN {-5, 0, 5} ELSE {-10, 0, 10}

\* sample[col] * (1 + variation)
Perturb(x, v) == (x * (100 + v)) \div 100

\* group_data.iloc[i % len(group_data)] for i in range(n), as index labels of dr.
RECURSIVE NthSmallest(_, _)
NthSmallest(S, n) ==
    LET m == CHOOSE x \in S : \A y \in S : x <= y
    IN  IF n = 0 THEN m ELSE NthSmallest(S \ {m}, n - 1)

CycleSources(dr, p) ==
    LET g == GroupIdx(dr, p.feature, p.group)
    IN  [i \in 1..p.n |-> NthSmallest(g, (i - 1) % Cardinality(g))]

\* Every DataFrame of synthetic rows one duplication can produce.
SmoteSamples(dr, p, jitter_cols) ==
    LET src == CycleSources(dr, p)
        vs == Variations(CountOf(dr, p.feature, p.group))
    IN  {[i \in 1..p.n |->
            [col \in dr.cols |-> IF col \in jitter_cols
                                 THEN Perturb(dr.rows[src[i]][col], v[i][col])
                                 ELSE dr.rows[src[i]][col]]]
         : v \in [1..p.n -> [jitter_cols -> vs]]}

RECURSIVE SmoteAdditions(_, _, _)
SmoteAdditions(dr, plan, jitter_cols) ==
    IF plan = <<>> THEN {<<>>}
    ELSE {<<a>> \o rest : a \in SmoteSamples(dr, Head(plan), jitter_cols),
                          rest \in SmoteAdditions(dr, Tail(plan), jitter_cols)}

\* The results of _industry_smote_rebalancing(df, diagnostic_results,
\* max_data_loss) on an engine holding the weight map wm, when the removal
\* samples are drawn from Removals(df, pairs).
IndustryResults(d, dg, max_data_loss, wm, Removals(_, _)) ==
    LET budget == TotalRemovalBudget(NRows(d), max_data_loss)
        fail(e) == {[error |-> e, data |-> d, removed |-> <<>>, total_removed |-> 0,
                     added |-> <<>>, proposed |-> <<>>, returned_object |-> "none",
                     draws |-> <<>>]}
    IN  IF \E i \in DOMAIN dg.feature_tests :
              IsTarget(dg.feature_tests[i]) /\ dg.feature_tests[i].feature \notin d.cols
        THEN fail("KeyError")
        ELSE LET removal_plan == RemovalPlan(d, dg, budget)
                 rem == ConsumeBudget(d, removal_plan, 0, budget)
             IN  UNION {
                   LET removal_indices == UnionAll(rs)
                       df_rebalanced == Drop(d, removal_indices)
                       plan == SmotePlan(df_rebalanced, dg)
                       numerical_cols == df_rebalanced.cols \cap NumericColumns
                   IN  IF plan # <<>> /\ numerical_cols # {} /\ wm = <<>>
                       THEN fail("TypeError")
                       ELSE {[error |-> "",
                              data |-> [cols |-> d.cols,
                                        rows |-> df_rebalanced.rows \o Flatten(as)],
                              removed |-> [i \in DOMAIN rem |->
                                             [feature |-> rem[i].feature, group |-> rem[i].group,
                                              planned |-> rem[i].n, n |-> Cardinality(rs[i])]],
                              total_removed |-> Cardinality(removal_indices),
                              added |-> [i \in DOMAIN plan |->
                                           [feature |-> plan[i].feature, group |-> plan[i].group,
                                            n |-> Len(as[i])]],
                              proposed |-> removal_plan,
                              returned_object |-> "new",
                              draws |-> <<rs, as>>]
                             : as \in SmoteAdditions(df_rebalanced, plan,
                                        {c \in numerical_cols : ~InMap(wm, c)})}
                   : rs \in Removals(d, rem)}

\* Every result _industry_smote_rebalancing can return or raise for (df,
\* diagnostic_results, max_data_loss), over all the samples it can draw.
industry_smote_rebalancing(d, dg, max_data_loss, wm) ==
    IndustryResults(d, dg, max_data_loss, wm, RemovalSamples)

(***************************************************************************)
(* Validator: validate_improvement, validate_industry_readiness, report     *)
(***************************************************************************)
\* scipy's wasserstein_distance(dist, expected) with expected a vector whose
\* entries all equal 1/kb is the mean of |dist[i] - 1/kb|; dist is the
\* proportion vector of counts (which sum to N).
WassersteinToUniform(counts, kb) ==
    LET N == SeqSum(counts)
    IN  Rat(SeqSum([i \in DOMAIN counts |-> Abs(counts[i] * kb - N)]), Len(counts) * kb * N)

\* ((w_before - w_after) / w_before) * 100 if w_before > 0 else 0
Improvement(before, after, f) ==
    LET cb == ObservedCounts(before, f)
        w_before == WassersteinToUniform(cb, Len(cb))
        w_after == WassersteinToUniform(ObservedCounts(after, f), Len(cb))
    IN  IF w_before.num > 0
        THEN RatMul(RatDiv(RatSub(w_before, w_after), w_before), Rat(100, 1))
        ELSE Rat(0, 1)

\* The features of the diagnosis flagged significant, in its order.
SignificantFeatures(dg) ==
    LET ts == SelectIdx(dg.feature_tests, LAMBDA i : dg.feature_tests[i].significant_bias, 1)
    IN  [i \in DOMAIN ts |-> ts[i].feature]

WassersteinImprovements(before, after, dg) ==
    LET fs == SignificantFeatures(dg)
    IN  [i \in DOMAIN fs |-> <<fs[i], Improvement(before, after, fs[i])>>]

\* np.mean of a list: nan (<<>>) for the empty list.
Mean(xs) == IF xs = <<>> THEN <<>> ELSE <<RatMul(RatSum(xs), Rat(1, Len(xs)))>>

\* retention_rate >= 92
RetentionThreshold == 92

\* np.mean(improvements) > 15; a comparison with nan is False.
GainThreshold == 15

\* retention_rate > 92
MeetsDataRetentionStrict(retention_rate) == RatLt(Rat(RetentionThreshold, 1), retention_rate)

MeetsDataRetention(retention_rate) == RatLe(Rat(RetentionThreshold, 1), retention_rate)

\* np.mean(improvements) >= 15
MeaningfulFairnessGainInclusive(improvements) ==
    LET m == Mean(improvements)
    IN  m # <<>> /\ RatLe(Rat(GainThreshold, 1), m[1])

\* A gain that counts nothing to improve as a gain.
MeaningfulFairnessGainVacuous(improvements) ==
    LET m == Mean(improvements)
    IN  m = <<>> \/ RatLt(Rat(GainThreshold, 1), m[1])

MeaningfulFairnessGain(improvements) ==
    LET m == Mean(improvements)
    IN  m # <<>> /\ RatLt(Rat(GainThreshold, 1), m[1])

\* Sections 2 and 3 of validate_industry_readiness.
IndustryReadiness(records_before, records_after, improvements) ==
    LET retention_rate == Rat(records_after * 100, records_before)
    IN  [retention_rate |-> retention_rate,
         data_loss_percent |-> RatSub(Rat(100, 1), retention_rate),
         records_before |-> records_before,
         records_after |-> records_after,
         meets_data_retention |-> MeetsDataRetention(retention_rate),
         meaningful_fairness_gain |-> MeaningfulFairnessGain(improvements),
         production_ready |-> MeetsDataRetention(retention_rate)
                              /\ MeaningfulFairnessGain(improvements)]

validate_industry_readiness(before, after, dg) ==
    LET imps == WassersteinImprovements(before, after, dg)
    IN  [fairness_improvement |-> imps,
         metrics |-> IndustryReadiness(NRows(before), NRows(after),
                                       [i \in DOMAIN imps |-> imps[i][2]])]

\* ((score_before - score_after) / score_before) * 100 if score_before > 0 else 0
ReductionPercent(score_before, score_after) ==
    IF score_before > 0
    THEN Rat((score_before - score_after) * 100, score_before)
    ELSE Rat(0, 1)

validate_improvement(wm, before, after, dg) ==
    LET imps == WassersteinImprovements(before, after, dg)
        m == Mean([i \in DOMAIN imps |-> imps[i][2]])
    IN  [bias_score_reduction |-> ReductionPercent(BiasScore(wm, before), BiasScore(wm, after)),
         wasserstein_improvements |-> imps,
         overall_wasserstein_improvement |-> IF m = <<>> THEN Rat(0, 1) ELSE m[1]]

\* _detect_feature_biases: per weighted present feature the disparity and the
\* groups above the uniform expectation with their excess ratio.
detect_feature_biases(wm, d) ==
    LET pf == SelectIdx(wm, LAMBDA i : wm[i][1] \in d.cols, 1)
        over(f) ==
            LET vc == value_counts(d, f)
                k == Len(vc)
                sel == SelectIdx(vc, LAMBDA i : CountOf(d, f, vc[i]) * k > NRows(d), 1)
            IN  [j \in DOMAIN sel |->
                   <<sel[j], Rat(CountOf(d, f, sel[j]) * k - NRows(d), NRows(d))>>]
    IN  [i \in DOMAIN pf |->
           [feature |-> pf[i][1],
            disparity_score |-> calculate_disparity(d, pf[i][1]),
            over_represented_groups |-> over(pf[i][1]),
            weight |-> pf[i][2]]]

report(dom, wm, biases, impact, before, after) ==
    [domain |-> dom,
     bias_score_before |-> BiasScore(wm, before),
     bias_score_after |-> BiasScore(wm, after),
     reduction_percent |-> ReductionPercent(BiasScore(wm, before), BiasScore(wm, after)),
     records_before |-> NRows(before),
     records_after |-> NRows(after),
     data_loss_percent |-> Rat((NRows(before) - NRows(after)) * 100, NRows(before)),
     feature_weights |-> wm,
     detected_biases |-> biases,
     mitigation_impact |-> impact]

(***************************************************************************)
(* The datasets and call arguments explored                                 *)
(***************************************************************************)
\* Longest dataset enumerated row by row.
MaxSmallRows == 2

\* Largest majority block of the skewed datasets.
MaxMajority == 7

\* Largest minority block of the skewed datasets.
MaxMinority == 2

\* Most ways the rows of one call's removals can be drawn.
MaxRemovalChoices == 600

Row2(e, r) == [Ethnicity |-> e, Region |-> r]

Row3(e, r, x) == [Ethnicity |-> e, Region |-> r, Income |-> x]

RowRI(r, x) == [Region |-> r, Income |-> x]

RowERG(e, r, g) == [Ethnicity |-> e, Region |-> r, Gender |-> g]

RECURSIVE Repeat(_, _)
Repeat(row, n) == IF n = 0 THEN <<>> ELSE <<row>> \o Repeat(row, n - 1)

\* The rows of a list of <<row, count>> blocks.
RECURSIVE Blocks(_)
Blocks(bs) == IF bs = <<>> THEN <<>> ELSE Repeat(Head(bs)[1], Head(bs)[2]) \o Blocks(Tail(bs))

Frame(cols, rows) == [cols |-> cols, rows |-> rows]

SmallRows == {Row2(e, r) : e \in {"A", "B"}, r \in {"N", "S"}}

SmallDatasets ==
    {Frame({"Ethnicity", "Region"}, rows) :
        rows \in UNION {[1..n -> SmallRows] : n \in 1..MaxSmallRows}}

\* One dominant Ethnicity/Region block with small minorities.
SkewedDatasets ==
    {Frame({"Ethnicity", "Region"},
           Blocks(<< <<Row2("A", "N"), a>>, <<Row2("B", "N"), b>>, <<Row2("C", "S"), c>>,
                     <<Row2("A", "S"), s>> >>)) :
        a \in {MaxMajority}, b \in 0..MaxMinority, c \in 1..MaxMinority, s \in 0..1}

\* Datasets of 25 rows and more, where 8% of the rows is at least 2.
LargeDatasets ==
    {Frame({"Ethnicity", "Region"},
           Blocks(<< <<Row2("A", "N"), a>>, <<Row2("B", "N"), 25 - a - 2>>,
                     <<Row2("C", "S"), 1>>, <<Row2("D", "N"), 1>> >>)) :
        a \in {12, 20}}
    \cup {Frame({"Ethnicity", "Region"},
                Blocks(<< <<Row2("A", "N"), 10>>, <<Row2("B", "N"), 9>>, <<Row2("C", "N"), 2>>,
                          <<Row2("D", "N"), 2>>, <<Row2("E", "N"), 2>> >>))}

\* Datasets with a numeric column outside every weight map.
IncomeDatasets ==
    {Frame({"Region", "Income"},
           Blocks(<< <<RowRI("N", 200), b[1]>>, <<RowRI("S", 100), b[2]>> >>)) :
        b \in {<<3, 1>>, <<9, 1>>, <<10, 2>>}}
    \cup {Frame({"Ethnicity", "Region", "Income"},
                Blocks(<< <<Row3("A", "N", 200), 2>>, <<Row3("B", "S", 100), 1>> >>)),
          Frame({"Income"}, <<[Income |-> 100], [Income |-> 200]>>)}

\* Nine rows with three weighted features, each with one group of eight: at
\* max_data_loss 0.25 the budget is two rows and three proposals compete.
GenderDatasets ==
    {Frame({"Ethnicity", "Region", "Gender"},
           Blocks(<< <<RowERG("B", "N", "M"), 1>>, <<RowERG("A", "S", "M"), 1>>,
                     <<RowERG("A", "N", "F"), 1>>, <<RowERG("A", "N", "M"), 6>> >>))}

\* Ethnicity with the counts 8, 2, 2: chi2 = 6.0 is significant at 0.05 and
\* the effect size 6 / 12 is exactly 0.5.
ThresholdDatasets ==
    {Frame({"Ethnicity", "Region"},
           Blocks(<< <<Row2("A", "N"), 8>>, <<Row2("B", "N"), 2>>, <<Row2("C", "S"), 2>> >>))}

Datasets ==
    SmallDatasets \cup SkewedDatasets \cup LargeDatasets \cup IncomeDatasets
        \cup GenderDatasets \cup ThresholdDatasets

\* fit() arguments: two domains that order Ethnicity and Region differently,
\* and a name outside the table.
FitInputs == {"justice", "finance", "retail"}

\* transform() mode strings.
Modes == {"strict", "soft", "industry"}

\* alpha of a diagnosis, in thousandths.
Alphas == {DefaultAlpha, 10}

\* max_data_loss of a direct _industry_smote_rebalancing call, in hundredths.
MaxDataLossInputs == {25, 50}

\* Counts of choices saturate just above the bound.
Saturate(n) == Min(n, MaxRemovalChoices + 1)

\* C(n, k) for k <= n / 2, saturated: C(n, j) = C(n, j - 1) * (n - j + 1) / j.
RECURSIVE BinomialUp(_, _)
BinomialUp(n, j) ==
    IF j = 0 THEN 1
    ELSE LET b == BinomialUp(n, j - 1)
         IN  IF b > MaxRemovalChoices THEN b ELSE Saturate((b * (n - j + 1)) \div j)

Binomial(n, k) == IF k > n THEN 0 ELSE BinomialUp(n, Min(k, n - k))

\* The number of ways to draw the samples of a list of removals.
RECURSIVE RemovalChoices(_, _)
RemovalChoices(d, pairs) ==
    IF pairs = <<>> THEN 1
    ELSE Saturate(Binomial(CountOf(d, Head(pairs).feature, Head(pairs).group), Head(pairs).n)
                  * RemovalChoices(d, Tail(pairs)))

SurgicalChoices(d, dg) ==
    LET targets == SurgicalTargets(dg)
    IN  IF \E i \in DOMAIN targets : targets[i] \notin d.cols THEN 1
        ELSE RemovalChoices(d, SurgicalRemovals(d,
                 [i \in DOMAIN targets |-> calculate_rebalancing_plan(d, targets[i])]))

IndustryChoices(d, dg, max_data_loss) ==
    LET budget == TotalRemovalBudget(NRows(d), max_data_loss)
    IN  IF \E i \in DOMAIN dg.feature_tests :
              IsTarget(dg.feature_tests[i]) /\ dg.feature_tests[i].feature \notin d.cols
        THEN 1
        ELSE RemovalChoices(d, ConsumeBudget(d, RemovalPlan(d, dg, budget), 0, budget))

(***************************************************************************)
(* The engine and its caller.  The caller holds one dataset, at most one     *)
(* diagnosis of it and, once a mitigation has returned, the corrected       *)
(* dataset; it mitigates a dataset once.                                    *)
(***************************************************************************)
InvalidDomain == "ValueError: Domain must be one of"

NotFitted == "ValueError: Must call fit() with a domain first"

MissingDiagnosis == "ValueError: Must provide diagnostic_results"

NoneNotSubscriptable == "TypeError: 'NoneType' object is not subscriptable"

NoneNotIterable == "TypeError: 'NoneType' object is not iterable"

NoTrace ==
    [removed |-> <<>>, total_removed |-> 0, added |-> <<>>, proposed |-> <<>>,
     returned_object |-> "none"]

\* What a call left behind: its name and argument, the exception raised ("" if
\* none), the value returned (<<>> if none) and, for a rebalancing, how many
\* rows each removal drew, how many distinct rows were dropped, how many
\* rows each addition appended and which object the returned dataset is.
Outcome(op, arg, error, ret, trace) ==
    [op |-> op, arg |-> arg, error |-> error, ret |-> ret,
     removed |-> trace.removed, total_removed |-> trace.total_removed,
     added |-> trace.added, proposed |-> trace.proposed,
     returned_object |-> trace.returned_object]

Raised(op, arg, error) == Outcome(op, arg, error, <<>>, NoTrace)

Returned(op, arg, value) == Outcome(op, arg, "", <<value>>, NoTrace)

\* __init__
Init ==
    /\ weights = load_domain_weights
    /\ domain = "None"
    /\ domain_weights = <<>>
    /\ detected_biases = <<>>
    /\ mitigation_impact = <<>>
    /\ df \in Datasets
    /\ diag = <<>>
    /\ df_after = <<>>
    /\ out = Raised("init", "", "")
    /\ last_fit = "None"
    /\ instances = <<>>
    /\ callers = <<>>

\* A fit that stores the domain before it validates it.
fit_before_check(d) ==
    /\ domain' = d
    /\ IF d \notin DOMAIN weights
       THEN /\ out' = Raised("fit", d, InvalidDomain)
            /\ UNCHANGED <<domain_weights, last_fit>>
       ELSE /\ domain_weights' = weights[d]
            /\ last_fit' = d
            /\ out' = Returned("fit", d, d)
    /\ UNCHANGED <<weights, detected_biases, mitigation_impact, df, sharing, diag, df_after>>

\* fit(domain)
fit(d) ==
    /\ IF d \notin DOMAIN weights
       THEN /\ out' = Raised("fit", d, InvalidDomain)
            /\ UNCHANGED <<domain, domain_weights, last_fit>>
       ELSE /\ domain' = d
            /\ domain_weights' = weights[d]
            /\ last_fit' = d
            /\ out' = Returned("fit", d, d)
    /\ UNCHANGED <<weights, detected_biases, mitigation_impact, df, sharing, diag, df_after>>

\* The caller selects the domain before it mitigates.
Fit == df_after = <<>> /\ \E d \in FitInputs : fit(d)

\* score(df), on the original or on the corrected dataset
score(which, d) ==
    /\ out' = IF domain_weights = <<>>
              THEN Raised("score", which, NotFitted)
              ELSE Returned("score", which, BiasScore(domain_weights, d))
    /\ UNCHANGED <<engine, df, sharing, diag, df_after, last_fit>>

Score ==
    \/ score("before", df)
    \/ df_after # <<>> /\ score("after", df_after[1])

\* diagnostic_results = comprehensive_statistical_diagnosis(df, bc.domain_weights, alpha)
Diagnose ==
    \E alpha \in Alphas :
        /\ df_after = <<>>
        /\ IF domain_weights = <<>>
           THEN /\ out' = Raised("diagnose", alpha, NoneNotIterable)
                /\ UNCHANGED diag
           ELSE LET r == comprehensive_statistical_diagnosis(df, domain_weights, alpha)
                IN  /\ diag' = <<r>>
                    /\ out' = Returned("diagnose", alpha, r)
        /\ UNCHANGED <<engine, df, sharing, df_after, last_fit>>

\* What the caller gets back from a rebalancing result r.
Rebalanced(op, arg, r) ==
    IF r.error # ""
    THEN /\ out' = Raised(op, arg, r.error)
         /\ UNCHANGED df_after
    ELSE /\ out' = Outcome(op, arg, "", <<r.data>>, r)
         /\ df_after' = <<r.data>>

\* A transform that tests diagnostic_results before the fit.
\* A dispatch that knows 'strict' and 'industry' and leaves the dataset of
\* any other mode as it is.
df_corrected_known_modes(mode, dg) ==
    IF mode = "industry"
    THEN industry_smote_rebalancing(df, dg, DefaultMaxDataLoss, domain_weights)
    ELSE IF mode = "strict"
    THEN evidence_based_rebalancing(df, dg)
    ELSE {ReturnCopy(df)}

\* if mode == 'industry': self._industry_smote_rebalancing(df, diagnostic_results)
\* else: self._evidence_based_rebalancing(df, diagnostic_results, mode)
\* The budget policy runs with the default of its max_data_loss parameter;
\* the unconstrained policy takes the mode and never reads it.
df_corrected(mode, dg) ==
    IF mode = "industry"
    THEN industry_smote_rebalancing(df, dg, DefaultMaxDataLoss, domain_weights)
    ELSE evidence_based_rebalancing(df, dg)

transform_diagnosis_first(mode, dgo) ==
    LET arg == [mode |-> mode, diagnosed |-> dgo # <<>>]
    IN  /\ IF dgo = <<>>
           THEN /\ out' = Raised("transform", arg, MissingDiagnosis)
                /\ UNCHANGED <<detected_biases, df_after>>
           ELSE IF domain_weights = <<>>
           THEN /\ out' = Raised("transform", arg, NotFitted)
                /\ UNCHANGED <<detected_biases, df_after>>
           ELSE /\ detected_biases' = <<detect_feature_biases(domain_weights, df)>>
                /\ (IF mode = "industry"
                    THEN IndustryChoices(df, dgo[1], DefaultMaxDataLoss)
                    ELSE SurgicalChoices(df, dgo[1])) <= MaxRemovalChoices
                /\ \E r \in df_corrected(mode, dgo[1]) : Rebalanced("transform", arg, r)
        /\ UNCHANGED <<weights, domain, domain_weights, mitigation_impact, df, sharing, diag, last_fit>>

\* transform(df, mode, diagnostic_results)
transform(mode, dgo) ==
    LET arg == [mode |-> mode, diagnosed |-> dgo # <<>>]
    IN  /\ IF domain_weights = <<>>
           THEN /\ out' = Raised("transform", arg, NotFitted)
                /\ UNCHANGED <<detected_biases, df_after>>
           ELSE IF dgo = <<>>
           THEN /\ out' = Raised("transform", arg, MissingDiagnosis)
                /\ UNCHANGED <<detected_biases, df_after>>
           ELSE /\ detected_biases' = <<detect_feature_biases(domain_weights, df)>>
                /\ (IF mode = "industry"
                    THEN IndustryChoices(df, dgo[1], DefaultMaxDataLoss)
                    ELSE SurgicalChoices(df, dgo[1])) <= MaxRemovalChoices
                /\ \E r \in df_corrected(mode, dgo[1]) : Rebalanced("transform", arg, r)
        /\ UNCHANGED <<weights, domain, domain_weights, mitigation_impact, df, sharing, diag, last_fit>>

Transform ==
    /\ df_after = <<>>
    /\ \E mode \in Modes, dgo \in {<<>>, diag} : transform(mode, dgo)

\* _industry_smote_rebalancing(df, diagnostic_results, max_data_loss)
IndustrySmote(op, dgo, max_data_loss) ==
    LET arg == [max_data_loss |-> max_data_loss, diagnosed |-> dgo # <<>>]
    IN  /\ IF dgo = <<>>
           THEN /\ out' = Raised(op, arg, NoneNotSubscriptable)
                /\ UNCHANGED df_after
           ELSE /\ IndustryChoices(df, dgo[1], max_data_loss) <= MaxRemovalChoices
                /\ \E r \in industry_smote_rebalancing(df, dgo[1], max_data_loss,
                                                       domain_weights) :
                      Rebalanced(op, arg, r)
        /\ UNCHANGED <<engine, df, sharing, diag, last_fit>>

\* transform_industry(df, diagnostic_results)
TransformIndustry ==
    /\ df_after = <<>>
    /\ \E dgo \in {<<>>, diag} : IndustrySmote("transform_industry", dgo, DefaultMaxDataLoss)

\* a direct call of the rebalancing with another max_data_loss
IndustrySmoteRebalancing ==
    /\ df_after = <<>>
    /\ diag # <<>>
    /\ \E m \in MaxDataLossInputs : IndustrySmote("_industry_smote_rebalancing", diag, m)

\* validate_improvement(df, df_corrected, diagnostic_results)
ValidateImprovement ==
    /\ df_after # <<>>
    /\ diag # <<>>
    /\ out' = IF domain_weights = <<>>
              THEN Raised("validate_improvement", "", NotFitted)
              ELSE Returned("validate_improvement", "",
                            validate_improvement(domain_weights, df, df_after[1], diag[1]))
    /\ UNCHANGED <<engine, df, sharing, diag, df_after, last_fit>>

\* validate_industry_readiness(df, df_corrected, diagnostic_results)
ValidateIndustryReadiness ==
    /\ df_after # <<>>
    /\ diag # <<>>
    /\ out' = Returned("validate_industry_readiness", "",
                       validate_industry_readiness(df, df_after[1], diag[1]))
    /\ UNCHANGED <<engine, df, sharing, diag, df_after, last_fit>>

\* report(df, df_corrected)
Report ==
    /\ df_after # <<>>
    /\ out' = IF domain_weights = <<>>
              THEN Raised("report", "", NotFitted)
              ELSE Returned("report", "",
                            report(domain, domain_weights, detected_biases, mitigation_impact,
                                   df, df_after[1]))
    /\ UNCHANGED <<engine, df, sharing, diag, df_after, last_fit>>

Next ==
    \/ Fit
    \/ Score
    \/ Diagnose
    \/ Transform
    \/ TransformIndustry
    \/ IndustrySmoteRebalancing
    \/ ValidateImprovement
    \/ ValidateIndustryReadiness
    \/ Report

Spec == Init /\ [][Next]_vars

(***************************************************************************)
(* The diagnosis as a function of the category counts: one weighted column  *)
(* with a dominant category, diagnosed at the default alpha.                *)
(***************************************************************************)
\* Smallest and largest size of the dominant category.
MinTop == 1

MaxTop == 80

\* Largest size of a minority category, and most minority categories.
MaxMinorCount == 2

MaxMinorCategories == 4

CategoryNames == <<"A", "B", "C", "D", "E", "F", "G">>

\* counts[i] rows of category i, in blocks.
CountsFrame(f, counts) ==
    LET upto(j) == SeqSum(SubSeq(counts, 1, j))
        cat(i) == CHOOSE j \in DOMAIN counts : upto(j - 1) < i /\ i <= upto(j)
    IN  Frame({f}, [i \in 1..SeqSum(counts) |-> [c \in {f} |-> CategoryNames[cat(i)]]])

DominatedDatasets ==
    {CountsFrame("Ethnicity", <<top>> \o minors) :
        top \in MinTop..MaxTop,
        minors \in {m \in UNION {[1..n -> 1..MaxMinorCount] : n \in 1..MaxMinorCategories} :
                       \A i \in 1..(Len(m) - 1) : m[i] >= m[i + 1]}}

InitDiagnosis ==
    /\ weights = load_domain_weights
    /\ domain = "None"
    /\ domain_weights = <<>>
    /\ detected_biases = <<>>
    /\ mitigation_impact = <<>>
    /\ df \in DominatedDatasets
    /\ diag = <<>>
    /\ df_after = <<>>
    /\ out = Raised("init", "", "")
    /\ last_fit = "None"
    /\ instances = <<>>
    /\ callers = <<>>

\* comprehensive_statistical_diagnosis(df, bc.weights['justice'])
DiagnoseDirect ==
    LET r == comprehensive_statistical_diagnosis(df, weights["justice"], DefaultAlpha)
    IN  /\ diag' = <<r>>
        /\ out' = Returned("diagnose", DefaultAlpha, r)
        /\ UNCHANGED <<engine, df, sharing, df_after, last_fit>>

NextDiagnosis == DiagnoseDirect

SpecDiagnosis == InitDiagnosis /\ [][NextDiagnosis]_vars

(***************************************************************************)
(* The readiness gate as a function of the record counts and the            *)
(* per-feature improvements.                                                *)
(***************************************************************************)
\* <<records_before, records_after>>
RecordCountInputs ==
    {<<1000, 950>>, <<1000, 920>>, <<1000, 919>>, <<1000, 1000>>, <<1000, 1100>>,
     <<25, 23>>, <<25, 22>>, <<25, 24>>, <<100, 92>>, <<100, 91>>, <<3, 2>>, <<13, 12>>}

\* improvements, in percent
ImprovementInputs == {Rat(20, 1), Rat(15, 1), Rat(16, 1), Rat(14, 1), Rat(-5, 1), Rat(151, 10)}

\* Most features with an improvement.
MaxImprovements == 2

InitReadiness ==
    /\ weights = load_domain_weights
    /\ domain = "None"
    /\ domain_weights = <<>>
    /\ detected_biases = <<>>
    /\ mitigation_impact = <<>>
    /\ df = Frame({"Income"}, <<[Income |-> 100]>>)
    /\ diag = <<>>
    /\ df_after = <<>>
    /\ out = Raised("init", "", "")
    /\ last_fit = "None"
    /\ instances = <<>>
    /\ callers = <<>>

\* Sections 2 and 3 of validate_industry_readiness on given sizes and
\* improvements.
ReadinessGate ==
    \E rc \in RecordCountInputs,
       imps \in UNION {[1..n -> ImprovementInputs] : n \in 0..MaxImprovements} :
        /\ out.op = "init"
        /\ out' = Returned("industry_readiness",
                           [records_before |-> rc[1], records_after |-> rc[2],
                            improvements |-> imps],
                           IndustryReadiness(rc[1], rc[2], imps))
        /\ UNCHANGED <<engine, df, sharing, diag, df_after, last_fit>>

NextReadiness == ReadinessGate

SpecReadiness == InitReadiness /\ [][NextReadiness]_vars

(***************************************************************************)
(* The worked scenario: one feature with counts 8s, s, s; at s = 100 the    *)
(* counts are A:800, B:100, C:100.  The diagnosis and the unconstrained     *)
(* policy run on it directly; of the samples the policy can draw, the       *)
(* callers here draw runs of consecutive rows of a group.                   *)
(***************************************************************************)
\* Largest s below the scenario's own s = 100.
MaxScenarioScale == 40

ScenarioScales == (1..MaxScenarioScale) \cup {100}

ScenarioDatasets == {CountsFrame("Ethnicity", <<8 * s, s, s>>) : s \in ScenarioScales}

\* Most rows of a group skipped before a run drawn without replacement starts.
MaxWindowOffset == 1

\* Largest first position and largest step of a draw with replacement.
MaxSampleStart == 1

MaxSampleStride == 1

\* Number of labels of S below i.
RankIn(S, i) == Cardinality({j \in S : j < i})

\* Samples without replacement: for each entry of pairs, n consecutive rows
\* of its group, behind the first o rows or at the end of the group.
RECURSIVE WindowSamples(_, _)
WindowSamples(d, pairs) ==
    IF pairs = <<>> THEN {<<>>}
    ELSE LET G == GroupIdx(d, Head(pairs).feature, Head(pairs).group)
             n == Head(pairs).n
             offsets == {o \in (0..MaxWindowOffset) \cup {Cardinality(G) - n} :
                           o + n <= Cardinality(G)}
         IN  {<<{i \in G : RankIn(G, i) >= o /\ RankIn(G, i) < o + n}>> \o rest :
                 o \in offsets, rest \in WindowSamples(d, Tail(pairs))}

\* Samples with replacement: for each entry of pairs, n rows of its group
\* taken from a first position in steps, wrapping around.
RECURSIVE StrideSamples(_, _)
StrideSamples(d, pairs) ==
    IF pairs = <<>> THEN {<<>>}
    ELSE LET G == GroupIdx(d, Head(pairs).feature, Head(pairs).group)
             n == Head(pairs).n
             member(r) == CHOOSE i \in G : RankIn(G, i) = r
         IN  {<<[j \in 1..n |-> member((start + (j - 1) * stride) % Cardinality(G))]>> \o rest :
                 start \in 0..MaxSampleStart, stride \in 0..MaxSampleStride,
                 rest \in StrideSamples(d, Tail(pairs))}

\* Two selected features whose removals meet in the same rows: Ethnicity
\* A and Region N are over-represented, the rows of Ethnicity B stand first
\* among the rows of Region N, and Ethnicity C and Region S are small.
OverlapDatasets ==
    {Frame({"Ethnicity", "Region"},
           Blocks(<< <<Row2("B", "N"), b>>, <<Row2("A", "N"), a>>, <<Row2("C", "S"), c>> >>)) :
        a \in {13, 14}, b \in {1, 2}, c \in {2, 3}}

InitScenario ==
    /\ weights = load_domain_weights
    /\ domain = "None"
    /\ domain_weights = <<>>
    /\ detected_biases = <<>>
    /\ mitigation_impact = <<>>
    /\ df \in ScenarioDatasets
    /\ diag = <<>>
    /\ df_after = <<>>
    /\ out = Raised("init", "", "")
    /\ last_fit = "None"
    /\ instances = <<>>
    /\ callers = <<>>

\* bc._evidence_based_rebalancing(df, diagnostic_results)
EvidenceBasedRebalancing ==
    /\ diag # <<>>
    /\ df_after = <<>>
    /\ \E r \in SurgicalResults(df, diag[1], WindowSamples, StrideSamples) :
          Rebalanced("_evidence_based_rebalancing", [mode |-> "strict", diagnosed |-> TRUE], r)
    /\ UNCHANGED <<engine, df, sharing, diag, last_fit>>

NextScenario == DiagnoseDirect \/ EvidenceBasedRebalancing

SpecScenario == InitScenario /\ [][NextScenario]_vars

\* The same calls on the scenario's datasets and on the overlapping ones.
InitOverlap ==
    /\ weights = load_domain_weights
    /\ domain = "None"
    /\ domain_weights = <<>>
    /\ detected_biases = <<>>
    /\ mitigation_impact = <<>>
    /\ df \in ScenarioDatasets \cup OverlapDatasets
    /\ diag = <<>>
    /\ df_after = <<>>
    /\ out = Raised("init", "", "")
    /\ last_fit = "None"
    /\ instances = <<>>
    /\ callers = <<>>

SpecOverlap == InitOverlap /\ [][NextScenario]_vars

(***************************************************************************)
(* The budget-constrained policy called directly on a fitted engine, with   *)
(* the diagnosis of the dataset; of the samples it can draw, the callers   *)
(* here draw runs of consecutive rows of a group.                          *)
(***************************************************************************)
\* 25 rows with three weighted features: at max_data_loss 0.25 the budget is
\* six rows and the proposals are 3 (Ethnicity A), 2 (Region N), 2 (Gender M)
\* and 1 (Gender F).
CompetingDatasets ==
    {Frame({"Ethnicity", "Region", "Gender"},
           Blocks(<< <<RowERG("A", "N", "M"), 13>>, <<RowERG("A", "N", "F"), 9>>,
                     <<RowERG("A", "S", "F"), 1>>, <<RowERG("A", "S", "X"), 1>>,
                     <<RowERG("B", "S", "Y"), 1>> >>))}

\* 60 rows of one feature with the counts 35, 24, 1: the proportion of B is
\* 24 / 60 = 0.4, which is 1.2 times the expected 1 / 3.
BoundaryDatasets == {CountsFrame("Ethnicity", <<35, 24, 1>>)}

RowRAI(r, a, x) == [Region |-> r, Age |-> a, Income |-> x]

\* Twelve rows with a numeric weighted column (Age, the same in every row)
\* and a numeric column outside the weight maps (Income, negative, zero or
\* positive in the small category): Region S has one row, or two.
JitterDatasets ==
    {Frame({"Region", "Age", "Income"},
           Blocks(<< <<RowRAI("N", 40, 200), 11>>, <<RowRAI("S", 40, x), 1>> >>)) :
        x \in {-100, 0, 100}}
    \cup {Frame({"Region", "Age", "Income"},
                Blocks(<< <<RowRAI("N", 40, 200), 10>>, <<RowRAI("S", 40, -100), 1>>,
                          <<RowRAI("S", 40, 300), 1>> >>))}

BudgetDatasets ==
    CompetingDatasets \cup LargeDatasets \cup GenderDatasets \cup BoundaryDatasets
        \cup JitterDatasets

InitBudget ==
    /\ weights = load_domain_weights
    /\ domain = "None"
    /\ domain_weights = <<>>
    /\ detected_biases = <<>>
    /\ mitigation_impact = <<>>
    /\ df \in BudgetDatasets
    /\ diag = <<>>
    /\ df_after = <<>>
    /\ out = Raised("init", "", "")
    /\ last_fit = "None"
    /\ instances = <<>>
    /\ callers = <<>>

\* bc._industry_smote_rebalancing(df, diagnostic_results, max_data_loss)
IndustrySmoteDirect ==
    /\ diag # <<>>
    /\ df_after = <<>>
    /\ \E m \in {DefaultMaxDataLoss} \cup MaxDataLossInputs :
          \E r \in IndustryResults(df, diag[1], m, domain_weights, WindowSamples) :
              Rebalanced("_industry_smote_rebalancing",
                         [max_data_loss |-> m, diagnosed |-> TRUE], r)
    /\ UNCHANGED <<engine, df, sharing, diag, last_fit>>

NextBudget == Fit \/ Diagnose \/ IndustrySmoteDirect

SpecBudget == InitBudget /\ [][NextBudget]_vars

(***************************************************************************)
(* Properties of the mitigation policies                                   *)
(***************************************************************************)
\* The last call was a mitigation that returned a dataset.
MitigationDone ==
    /\ out.op \in {"transform", "transform_industry", "_industry_smote_rebalancing"}
    /\ out.error = ""

\* The last call ran the budget-constrained policy and returned a dataset.
IndustryDone ==
    /\ MitigationDone
    /\ out.op = "transform" => out.arg.mode = "industry"

\* max_data_loss of the last budget-constrained call, in percent.
MaxDataLossUsed ==
    IF out.op = "transform" THEN DefaultMaxDataLoss ELSE out.arg.max_data_loss

\* Sum of the n fields of a trace.
SumN(s) == SeqSum([i \in DOMAIN s |-> s[i].n])

\* C1: after the budget-constrained policy the distinct rows removed are at
\* most floor(N * max_data_loss), and the dataLossPercent of the result,
\* (N - size) / N * 100, is at most max_data_loss * 100 + 0.5.
C1_LossWithinBudget ==
    IndustryDone =>
        LET N == NRows(df)
            after == NRows(out.ret[1])
            m == MaxDataLossUsed
        IN  /\ 100 * out.total_removed <= m * N
            /\ out.total_removed <= TotalRemovalBudget(N, m)
            /\ 200 * (N - after) <= (2 * m + 1) * N

\* A budget-constrained call on 25 rows that used its whole budget of two
\* rows and skipped a third proposal.
C1_Witness ==
    /\ IndustryDone
    /\ NRows(df) = 25
    /\ MaxDataLossUsed = DefaultMaxDataLoss
    /\ out.total_removed = 2
    /\ Len(out.proposed) = 3

\* C2 (as stated): with a fitted engine and no diagnosis, transform in every
\* mode and transform_industry fail with MissingDiagnosis and return nothing.
C2_MissingDiagnosisRaised ==
    (/\ out.op \in {"transform", "transform_industry"}
     /\ domain_weights # <<>>
     /\ ~out.arg.diagnosed)
        => (out.error = MissingDiagnosis /\ out.ret = <<>>)

\* C3 (as stated): the result has N - (sum of the rows removed per pair) +
\* (sum of the rows added per pair) rows, where each removing pair removes
\* min(|d|, category size) rows.
C3_SizeIsSumOverPairs ==
    MitigationDone =>
        /\ NRows(out.ret[1]) = NRows(df) - SumN(out.removed) + SumN(out.added)
        /\ \A i \in DOMAIN out.removed :
               out.removed[i].n = Min(out.removed[i].planned,
                                      CountOf(df, out.removed[i].feature, out.removed[i].group))

\* C3 (amended): each removing pair draws min(|d|, category size) rows; a row
\* drawn by pairs of several features is removed once, so the result has
\* N - (distinct rows removed) + (sum of the rows added per pair) rows, and
\* the distinct rows removed are at most the sum over the pairs, with
\* equality when all removing pairs belong to one feature.
C3_SizeCountsDistinctRows ==
    MitigationDone =>
        /\ NRows(out.ret[1]) = NRows(df) - out.total_removed + SumN(out.added)
        /\ \A i \in DOMAIN out.removed :
               out.removed[i].n = Min(out.removed[i].planned,
                                      CountOf(df, out.removed[i].feature, out.removed[i].group))
        /\ out.total_removed <= SumN(out.removed)
        /\ (\A i, j \in DOMAIN out.removed : out.removed[i].feature = out.removed[j].feature)
               => out.total_removed = SumN(out.removed)

\* Two features drew the same row: fewer distinct rows than draws.
C3_Witness ==
    /\ MitigationDone
    /\ out.total_removed < SumN(out.removed)
    /\ out.total_removed > 0

\* C4: when the diagnosis does not require mitigation, a mitigation returns
\* the dataset it was given, with nothing removed and nothing added.
C4_NoMitigationIsNoOp ==
    (MitigationDone /\ ~diag[1].requires_mitigation) =>
        /\ out.ret[1] = df
        /\ out.removed = <<>>
        /\ out.added = <<>>
        /\ out.total_removed = 0

\* A mitigation under a diagnosis that found a large effect but no
\* significant bias.
C4_Witness ==
    /\ MitigationDone
    /\ ~diag[1].requires_mitigation
    /\ \E i \in DOMAIN diag[1].feature_tests :
           RatLt(Rat(1, 2), diag[1].feature_tests[i].effect_size)
    /\ out.ret[1] = df

(***************************************************************************)
(* Properties of the validators                                            *)
(***************************************************************************)
\* C5: validate_industry_readiness reports retention_rate =
\* 100 * after / before, data_loss_percent = 100 - retention_rate,
\* meets_data_retention exactly when retention_rate >= 92,
\* meaningful_fairness_gain exactly when the mean improvement is strictly
\* above 15, production_ready exactly when both hold; 1000 rows before, 950
\* after and a mean improvement of 20 give 95.0 and production_ready.
C5_ReadinessReport ==
    out.op = "industry_readiness" =>
        LET before == out.arg.records_before
            after == out.arg.records_after
            imps == out.arg.improvements
            m == out.ret[1]
            total == RatSum(imps)
        IN  /\ m.retention_rate.num * before = 100 * after * m.retention_rate.den
            /\ m.data_loss_percent.num * before
                   = 100 * (before - after) * m.data_loss_percent.den
            /\ m.meets_data_retention <=> (100 * after >= 92 * before)
            /\ m.meaningful_fairness_gain
                   <=> (Len(imps) > 0 /\ total.num > 15 * Len(imps) * total.den)
            /\ m.production_ready
                   <=> (m.meets_data_retention /\ m.meaningful_fairness_gain)
            /\ (before = 1000 /\ after = 950 /\ imps = <<Rat(20, 1)>>)
                   => (m.retention_rate = Rat(95, 1) /\ m.production_ready)

\* The scenario of 1000 rows before, 950 after and an improvement of 20.
C5_Witness ==
    /\ out.op = "industry_readiness"
    /\ out.arg.records_before = 1000
    /\ out.arg.records_after = 950
    /\ out.arg.improvements = <<Rat(20, 1)>>
    /\ out.ret[1].production_ready

\* C6: the dataset transform_industry returns passes the retention gate of
\* validate_industry_readiness: retention_rate >= 92 and
\* meets_data_retention is true.
C6_IndustryOutputMeetsRetention ==
    (out.op = "transform_industry" /\ out.error = "") =>
        LET m == validate_industry_readiness(df, out.ret[1], diag[1]).metrics
        IN  /\ m.meets_data_retention
            /\ m.retention_rate.num >= 92 * m.retention_rate.den
            /\ 100 * NRows(out.ret[1]) >= 92 * NRows(df)

\* transform_industry returned 23 of 25 rows: a retention of exactly 92.
C6_Witness ==
    /\ out.op = "transform_industry"
    /\ out.error = ""
    /\ out.total_removed > 0
    /\ 100 * NRows(out.ret[1]) = 92 * NRows(df)

(***************************************************************************)
(* Properties of the engine                                                *)
(***************************************************************************)
\* C7: fit with a name outside the seven domains fails with InvalidDomain and
\* leaves domain and weights selection as they were; the held weight map is
\* the table's entry for the last successfully fitted domain, unset when none
\* succeeded; the weight table never changes.
C7_FitKeepsLastValidDomain ==
    /\ weights = load_domain_weights
    /\ Cardinality(DOMAIN weights) = 7
    /\ last_fit = "None" => (domain = "None" /\ domain_weights = <<>>)
    /\ last_fit # "None" =>
           /\ last_fit \in DOMAIN load_domain_weights
           /\ domain = last_fit
           /\ domain_weights = load_domain_weights[last_fit]
    /\ out.op = "fit" =>
           IF out.arg \in DOMAIN load_domain_weights
           THEN out.error = "" /\ last_fit = out.arg
           ELSE out.error = InvalidDomain /\ out.ret = <<>>

\* A fit that failed on an engine already fitted for finance.
C7_Witness ==
    /\ out.op = "fit"
    /\ out.error = InvalidDomain
    /\ last_fit = "finance"
    /\ domain_weights = load_domain_weights["finance"]

\* C8: on an engine without a successful fit, score and transform fail with
\* NotFitted and compute nothing; transform does so whether or not a
\* diagnosis is supplied.
C8_NotFittedFirst ==
    (out.op \in {"score", "transform"} /\ domain_weights = <<>>) =>
        /\ out.error = NotFitted
        /\ out.ret = <<>>
        /\ detected_biases = <<>>
        /\ df_after = <<>>

\* transform without a fit and without a diagnosis.
C8_Witness ==
    /\ out.op = "transform"
    /\ domain_weights = <<>>
    /\ ~out.arg.diagnosed
    /\ out.error = NotFitted

(***************************************************************************)
(* Properties of the diagnosis                                             *)
(***************************************************************************)
\* Position of a feature in the held weight map.
WeightMapPosition(f) == CHOOSE i \in DOMAIN domain_weights : domain_weights[i][1] = f

\* C9: the diagnosis has one entry for each feature of the weight map that is
\* a column of the dataset and no other, in weight-map order;
\* significant_bias_count is the number of entries flagged significant
\* (p < alpha), requires_mitigation holds exactly when that count is above 0,
\* and dataset_size is the number of rows.
C9_DiagnosisShape ==
    (out.op = "diagnose" /\ out.error = "") =>
        LET r == out.ret[1]
            ts == r.feature_tests
            flagged == {i \in DOMAIN ts : ts[i].significant_bias}
        IN  /\ {ts[i].feature : i \in DOMAIN ts}
                   = {f \in Range(MapFeatures(domain_weights)) : f \in df.cols}
            /\ \A i, j \in DOMAIN ts :
                   i < j => WeightMapPosition(ts[i].feature) < WeightMapPosition(ts[j].feature)
            /\ \A i \in DOMAIN ts : ts[i].significant_bias <=> ts[i].p_value = "below_alpha"
            /\ r.significant_bias_count = Cardinality(flagged)
            /\ r.requires_mitigation <=> r.significant_bias_count > 0
            /\ r.dataset_size = NRows(df)

\* A diagnosis under finance, whose map lists Region before Ethnicity, with
\* both features present and one of them flagged.
C9_Witness ==
    /\ out.op = "diagnose"
    /\ out.error = ""
    /\ domain = "finance"
    /\ Len(out.ret[1].feature_tests) = 2
    /\ out.ret[1].feature_tests[1].feature = "Region"
    /\ out.ret[1].significant_bias_count = 1

\* Rows of the dataset whose Ethnicity is g.
EthnicityRows(g) == {i \in DOMAIN df.rows : df.rows[i].Ethnicity = g}

\* Ethnicity has at least 4 categories and one holds more than 95% of the rows.
Dominated ==
    /\ Cardinality({df.rows[i].Ethnicity : i \in DOMAIN df.rows}) >= 4
    /\ \E i \in DOMAIN df.rows :
           100 * Cardinality(EthnicityRows(df.rows[i].Ethnicity)) > 95 * NRows(df)

\* C10: when a weighted feature has at least 4 categories and one of them
\* holds more than 95% of the rows, the diagnosis at alpha = 0.05 flags the
\* feature significant and requires mitigation.
C10_DominantCategoryIsSignificant ==
    (out.op = "diagnose" /\ out.arg = DefaultAlpha /\ Dominated) =>
        /\ \A i \in DOMAIN out.ret[1].feature_tests :
               out.ret[1].feature_tests[i].feature = "Ethnicity"
                   => out.ret[1].feature_tests[i].significant_bias
        /\ \E i \in DOMAIN out.ret[1].feature_tests :
               out.ret[1].feature_tests[i].feature = "Ethnicity"
        /\ out.ret[1].requires_mitigation

\* A diagnosis of 4 categories where one holds 58 rows of 61, just above 95%.
C10_Witness ==
    /\ out.op = "diagnose"
    /\ Dominated
    /\ NRows(df) = 61
    /\ out.ret[1].requires_mitigation

(***************************************************************************)
(* Properties of the worked scenario                                       *)
(***************************************************************************)
\* The dataset has the counts A:800, B:100, C:100.
Scenario1000 ==
    /\ NRows(df) = 1000
    /\ CountOf(df, "Ethnicity", "A") = 800
    /\ CountOf(df, "Ethnicity", "B") = 100
    /\ CountOf(df, "Ethnicity", "C") = 100

\* sum over the categories of (observed - expected)^2 / expected, with
\* expected = N / k, from the observed counts of an entry.
GoodnessOfFit(t) ==
    LET k == Len(t.observed_counts)
        N == SeqSum([i \in 1..k |-> t.observed_counts[i][2]])
    IN  RatSum([i \in 1..k |->
                  Rat((t.observed_counts[i][2] * k - N) * (t.observed_counts[i][2] * k - N),
                      k * N)])

\* x rounds to n / scale at that precision.
RoundsTo(x, n, scale) ==
    /\ (2 * n - 1) * x.den <= 2 * scale * x.num
    /\ 2 * scale * x.num < (2 * n + 1) * x.den

\* C11 (as stated): for the counts A:800, B:100, C:100 the diagnosis is
\* significant with a chi-square statistic of about 621 and an effect size of
\* about 0.62.
C11_ChiSquareAbout621 ==
    (out.op = "diagnose" /\ Scenario1000) =>
        LET t == out.ret[1].feature_tests[1]
        IN  /\ t.significant_bias
            /\ RoundsTo(t.chi2_statistic, 621, 1)
            /\ RoundsTo(t.effect_size, 62, 100)

\* C11 (amended): for the counts A:800, B:100, C:100 the diagnosis is
\* significant, the chi-square statistic, the sum over the categories of
\* (observed - expected)^2 / expected, is 980 and the effect size chi2 / N is
\* 0.98; at every scale s of the counts 8s, s, s the statistic is that sum,
\* 9.8 s, and the effect size is 0.98.
C11_ChiSquareIs980 ==
    out.op = "diagnose" =>
        LET t == out.ret[1].feature_tests[1]
        IN  /\ t.feature = "Ethnicity"
            /\ t.chi2_statistic = GoodnessOfFit(t)
            /\ t.effect_size.num * NRows(df) * t.chi2_statistic.den
                   = t.chi2_statistic.num * t.effect_size.den
            /\ t.effect_size = Rat(98, 100)
            /\ Scenario1000 =>
                   /\ t.significant_bias
                   /\ out.ret[1].requires_mitigation
                   /\ t.chi2_statistic = Rat(980, 1)

\* The diagnosis of the 1000 rows, flagged significant.
C11_Witness ==
    /\ out.op = "diagnose"
    /\ Scenario1000
    /\ out.ret[1].feature_tests[1].significant_bias
    /\ out.ret[1].feature_tests[1].observed_counts = << <<"A", 800>>, <<"B", 100>>, <<"C", 100>> >>

\* The unconstrained policy returned a dataset.
SurgicalDone == out.op = "_evidence_based_rebalancing" /\ out.error = ""

\* C12 (as stated): for the counts A:800, B:100, C:100 the unconstrained
\* policy removes 326 rows of A and adds 55 rows to each of B and C, and the
\* output has 784 rows.
C12_Adds55 ==
    (SurgicalDone /\ Scenario1000) =>
        /\ out.removed = <<[feature |-> "Ethnicity", group |-> "A", planned |-> 326, n |-> 326]>>
        /\ out.added = <<[feature |-> "Ethnicity", group |-> "B", n |-> 55],
                         [feature |-> "Ethnicity", group |-> "C", n |-> 55]>>
        /\ NRows(out.ret[1]) = 784

\* C12 (amended): for the counts A:800, B:100, C:100 the unconstrained
\* policy removes 326 rows of A and adds 56 rows to each of B and C, since
\* 100 * (0.2333.. / 0.3333..) * 0.8 = 56, and the output has
\* 1000 - 326 + 56 + 56 = 786 rows; at every scale s of the counts 8s, s, s
\* it removes floor(8s * (deviation / proportion) * 0.7) rows of A and adds
\* floor(s * (|deviation| / expected) * 0.8) rows to each of B and C.
C12_Adds56 ==
    SurgicalDone =>
        LET N == NRows(df)
            a == CountOf(df, "Ethnicity", "A")
            b == CountOf(df, "Ethnicity", "B")
            n_remove == (7 * (3 * a - N)) \div 30
            n_add == (8 * b * (N - 3 * b)) \div (10 * N)
        IN  /\ out.removed = <<[feature |-> "Ethnicity", group |-> "A",
                                planned |-> n_remove, n |-> n_remove]>>
            /\ out.total_removed = n_remove
            /\ out.added = IF n_add = 0 THEN <<>>
                           ELSE <<[feature |-> "Ethnicity", group |-> "B", n |-> n_add],
                                  [feature |-> "Ethnicity", group |-> "C", n |-> n_add]>>
            /\ NRows(out.ret[1]) = N - n_remove + 2 * n_add
            /\ CountOf(out.ret[1], "Ethnicity", "A") = a - n_remove
            /\ CountOf(out.ret[1], "Ethnicity", "B") = b + n_add
            /\ Scenario1000 =>
                   /\ n_remove = 326
                   /\ n_add = 56
                   /\ NRows(out.ret[1]) = 786

\* The rebalanced 1000 rows: 474 of A, 156 of B and of C.
C12_Witness ==
    /\ SurgicalDone
    /\ Scenario1000
    /\ CountOf(out.ret[1], "Ethnicity", "A") = 474
    /\ CountOf(out.ret[1], "Ethnicity", "B") = 156
    /\ CountOf(out.ret[1], "Ethnicity", "C") = 156

(***************************************************************************)
(* Properties of the scorer and of the weight table                        *)
(***************************************************************************)
\* The dataset the last score call was given.
Scored == IF out.arg = "before" THEN df ELSE df_after[1]

\* The distinct values of column f of d.
Categories(d, f) == {d.rows[i][f] : i \in DOMAIN d.rows}

\* Column f of d has every category equally often.
EquallyFrequent(d, f) ==
    \A g, h \in Categories(d, f) :
        Cardinality({i \in DOMAIN d.rows : d.rows[i][f] = g})
            = Cardinality({i \in DOMAIN d.rows : d.rows[i][f] = h})

\* C13: the score is never negative, for every domain; it is the sum over
\* the weight map of weight * disparity with disparity >= 0, and a feature
\* contributes exactly 0 when it is absent from the dataset, when it has a
\* single category, and when its categories are equally frequent.
C13_ScoreNonNegative ==
    (out.op = "score" /\ out.error = "") =>
        /\ out.ret[1] >= 0
        /\ out.ret[1] = SeqSum([i \in DOMAIN domain_weights |->
                                  domain_weights[i][2]
                                      * calculate_disparity(Scored, domain_weights[i][1])])
                            \div 100
        /\ \A dom \in DOMAIN weights : BiasScore(weights[dom], Scored) >= 0
        /\ \A i \in DOMAIN domain_weights :
               LET f == domain_weights[i][1]
                   x == calculate_disparity(Scored, f)
               IN  /\ x >= 0
                   /\ f \notin Scored.cols => x = 0
                   /\ (f \in Scored.cols /\ Cardinality(Categories(Scored, f)) = 1) => x = 0
                   /\ (f \in Scored.cols /\ EquallyFrequent(Scored, f)) => x = 0

\* A positive score of a dataset in which one weighted feature has a single
\* category and another is absent.
C13_Witness ==
    /\ out.op = "score"
    /\ out.error = ""
    /\ out.ret[1] > 0
    /\ \E i \in DOMAIN domain_weights :
           /\ domain_weights[i][1] \in Scored.cols
           /\ Cardinality(Categories(Scored, domain_weights[i][1])) = 1
    /\ \E i \in DOMAIN domain_weights : domain_weights[i][1] \notin Scored.cols

\* C14: in each of the 7 domains the weights sum to 1.0 and every weight
\* lies in (0, 1]; every domain weights the same 7 protected features.
C14_WeightsNormalised ==
    /\ Cardinality(DOMAIN weights) = 7
    /\ \A dom \in DOMAIN weights :
           /\ SeqSum([i \in DOMAIN weights[dom] |-> weights[dom][i][2]]) = 100
           /\ \A i \in DOMAIN weights[dom] : weights[dom][i][2] > 0 /\ weights[dom][i][2] <= 100
           /\ Len(weights[dom]) = 7
           /\ Range(MapFeatures(weights[dom]))
                  = {"Ethnicity", "SocioeconomicStatus", "Region", "Age", "MigrationStatus",
                     "DisabilityStatus", "Gender"}
    /\ domain_weights # <<>> =>
           SeqSum([i \in DOMAIN domain_weights |-> domain_weights[i][2]]) = 100

\* An engine fitted for justice holds a map of 7 weights that sum to 1.0.
C14_Witness ==
    /\ out.op = "fit"
    /\ out.error = ""
    /\ domain = "justice"
    /\ Len(domain_weights) = 7
    /\ SeqSum([i \in DOMAIN domain_weights |-> domain_weights[i][2]]) = 100

(***************************************************************************)
(* Properties of the engine's state and of the caller's datasets           *)
(***************************************************************************)
\* C15 (as stated): every engine field other than the domain and weight
\* selection keeps its initial value, None, and a report carries no trace of
\* earlier transform calls.
C15_OnlySelectionPersists ==
    /\ detected_biases = <<>>
    /\ mitigation_impact = <<>>
    /\ (out.op = "report" /\ out.error = "") => out.ret[1].detected_biases = <<>>

\* C16: no call changes the caller's input dataset or the corrected dataset
\* it was handed, and every mitigation returns a new dataset object, also
\* when it removed and added nothing.
C16_InputsUnchanged ==
    [][/\ df' = df
       /\ df_after # <<>> => df_after' = df_after
       /\ (out'.op \in {"transform", "transform_industry", "_industry_smote_rebalancing"}
             /\ out'.error = "")
           => (out'.returned_object = "new" /\ df_after' = out'.ret)]_vars

\* A mitigation that removed and added nothing returned a new object equal
\* to its input.
C16_Witness ==
    /\ MitigationDone
    /\ out.op = "transform"
    /\ out.arg.mode = "strict"
    /\ out.removed = <<>>
    /\ out.added = <<>>
    /\ out.ret[1] = df
    /\ out.returned_object = "new"

(***************************************************************************)
(* Properties of the documented usage and of degenerate features           *)
(***************************************************************************)
\* C17 (as stated): on a fitted engine, transform(df, mode='soft') without
\* diagnostic_results returns a corrected dataset, which score and report
\* then accept.
C17_SoftTransformWithoutDiagnosis ==
    (/\ out.op = "transform"
     /\ out.arg.mode = "soft"
     /\ ~out.arg.diagnosed
     /\ domain_weights # <<>>)
        => (out.error = "" /\ out.ret # <<>> /\ df_after = out.ret)

\* A weighted column of the dataset with fewer than 2 distinct categories.
DegenerateFeatures ==
    {f \in Range(MapFeatures(domain_weights)) :
        f \in df.cols /\ Cardinality({df.rows[i][f] : i \in DOMAIN df.rows}) < 2}

\* C18 (as stated): a diagnosis of a dataset in which a weighted, present
\* feature has fewer than 2 distinct categories fails, returns no partial
\* result, and never returns an entry whose p-value is undefined.
C18_DegenerateFeatureRaises ==
    (out.op = "diagnose" /\ domain_weights # <<>> /\ DegenerateFeatures # {}) =>
        /\ out.error # ""
        /\ out.ret = <<>>
        /\ \A i \in DOMAIN diag : \A j \in DOMAIN diag[i].feature_tests :
               diag[i].feature_tests[j].p_value # "nan"

(***************************************************************************)
(* Properties of the selection of the unconstrained policy                 *)
(***************************************************************************)
\* transform ran the unconstrained policy and returned a dataset.
SurgicalTransformDone ==
    /\ out.op = "transform"
    /\ out.error = ""
    /\ out.arg.mode \in {"strict", "soft"}

\* Position of the entry of feature f in the supplied diagnosis.
DiagnosisPosition(f) ==
    CHOOSE i \in DOMAIN diag[1].feature_tests : diag[1].feature_tests[i].feature = f

\* The effect size the supplied diagnosis records for feature f.
DiagnosedEffect(f) == diag[1].feature_tests[DiagnosisPosition(f)].effect_size

\* Feature f is processed before feature g: larger effect size first, equal
\* effect sizes in the order of the diagnosis, which is the order of the
\* weight map it was made with.
ProcessedBefore(f, g) ==
    \/ DiagnosedEffect(g).num * DiagnosedEffect(f).den
           < DiagnosedEffect(f).num * DiagnosedEffect(g).den
    \/ /\ DiagnosedEffect(f) = DiagnosedEffect(g)
       /\ DiagnosisPosition(f) < DiagnosisPosition(g)
       /\ ([i \in DOMAIN diag[1].feature_tests |-> diag[1].feature_tests[i].feature]
               = ProtectedFeatures(domain_weights, df))
              => WeightMapPosition(f) < WeightMapPosition(g)

\* The features of a trace are in processing order.
InProcessingOrder(trace) ==
    \A i, j \in DOMAIN trace :
        (i < j /\ trace[i].feature # trace[j].feature)
            => ProcessedBefore(trace[i].feature, trace[j].feature)

\* C20: the unconstrained policy rebalances exactly the features the
\* supplied diagnosis flags significant with an effect size strictly above
\* 0.5, in effect-size-descending order, features of equal effect size in
\* the declaration order of the weight map; significance and effect size
\* are those of the diagnosis, not recomputed from the dataset.
C20_SelectsByDiagnosis ==
    SurgicalTransformDone =>
        LET ts == diag[1].feature_tests
            selected == {ts[i].feature : i \in {j \in DOMAIN ts :
                            /\ ts[j].significant_bias
                            /\ 2 * ts[j].effect_size.num > ts[j].effect_size.den}}
            touched == {out.removed[i].feature : i \in DOMAIN out.removed}
                           \cup {out.added[i].feature : i \in DOMAIN out.added}
        IN  /\ touched = selected
            /\ InProcessingOrder(out.removed)
            /\ InProcessingOrder(out.added)
            /\ selected = {} => out.ret[1] = df

\* Under finance, Region and Ethnicity have the same effect size and Region,
\* first in the weight map, is processed first.
C20_Witness ==
    /\ SurgicalTransformDone
    /\ domain = "finance"
    /\ Len(out.removed) = 2
    /\ out.removed[1].feature = "Region"
    /\ out.removed[2].feature = "Ethnicity"
    /\ DiagnosedEffect("Region") = DiagnosedEffect("Ethnicity")

(***************************************************************************)
(* Two callers, each running fit(d) and then score(D), on one engine or    *)
(* on an engine each.  A call of one caller may run between the statements *)
(* of a call of the other.                                                 *)
(***************************************************************************)
Callers == {1, 2}

Other(c) == 3 - c

\* One engine for every caller: both callers hold the same object.
EnginesShared(shared) == <<1, 1>>

\* BiasClean() builds an object with a selection of its own; callers that
\* share hold the same object.
Engines(shared) == IF shared THEN <<1, 1>> ELSE <<1, 2>>

\* The selection of a newly constructed engine.
NewInstance == [domain |-> "None", domain_weights |-> <<>>]

\* The domains the callers select: valid, and different from each other.
CallerDomains ==
    {ds \in [Callers -> FitInputs \cap DOMAIN load_domain_weights] : ds[1] # ds[2]}

InitShared ==
    /\ weights = load_domain_weights
    /\ domain = "None"
    /\ domain_weights = <<>>
    /\ detected_biases = <<>>
    /\ mitigation_impact = <<>>
    /\ df \in SkewedDatasets
    /\ diag = <<>>
    /\ df_after = <<>>
    /\ out = Raised("init", "", "")
    /\ last_fit = "None"
    /\ \E shared \in BOOLEAN, ds \in CallerDomains, d2 \in SkewedDatasets :
          /\ instances = [i \in {Engines(shared)[c] : c \in Callers} |-> NewInstance]
          /\ callers = [shared |-> shared,
                        engine |-> Engines(shared),
                        domain |-> <<ds[1], ds[2]>>,
                        data   |-> <<df, d2>>,
                        pc     |-> <<"fit", "fit">>,
                        got    |-> << <<>>, <<>> >>]

\* fit, up to self.domain = domain
FitDomain(c) ==
    /\ callers.pc[c] = "fit"
    /\ callers.domain[c] \in DOMAIN weights
    /\ instances' = [instances EXCEPT ![callers.engine[c]].domain = callers.domain[c]]
    /\ callers' = [callers EXCEPT !.pc[c] = "fit_weights"]
    /\ UNCHANGED <<engine, df, diag, df_after, out, last_fit>>

\* fit, self.domain_weights = self.weights[domain] and the return
FitWeights(c) ==
    /\ callers.pc[c] = "fit_weights"
    /\ instances' = [instances EXCEPT
                        ![callers.engine[c]].domain_weights = weights[callers.domain[c]]]
    /\ callers' = [callers EXCEPT !.pc[c] = "score"]
    /\ UNCHANGED <<engine, df, diag, df_after, out, last_fit>>

\* score(D), on the weights the engine holds when the call reads them
ScoreCall(c) ==
    /\ callers.pc[c] = "score"
    /\ LET wm == instances[callers.engine[c]].domain_weights
       IN  callers' = [callers EXCEPT
                          !.pc[c] = "done",
                          !.got[c] = IF wm = <<>>
                                     THEN <<NotFitted>>
                                     ELSE <<BiasScore(wm, callers.data[c])>>]
    /\ UNCHANGED <<engine, df, diag, df_after, out, last_fit, instances>>

CallerFitDomain == \E c \in Callers : FitDomain(c)

CallerFitWeights == \E c \in Callers : FitWeights(c)

CallerScore == \E c \in Callers : ScoreCall(c)

NextShared ==
    \/ CallerFitDomain
    \/ CallerFitWeights
    \/ CallerScore

SpecShared == InitShared /\ [][NextShared]_vars

\* The score of caller c's dataset under the domain caller k selected.
ScoreUnder(c, k) == BiasScore(weights[callers.domain[k]], callers.data[c])

\* C19: with an engine each, every interleaving gives each caller the
\* score of its dataset under its own domain; on a shared engine a caller
\* gets the score under its own or under the other caller's domain, and the
\* second happens in some interleaving.
C19_OwnInstanceOwnScore ==
    \A c \in Callers :
        callers.pc[c] = "done" =>
            /\ ~callers.shared => callers.got[c] = <<ScoreUnder(c, c)>>
            /\ callers.shared => callers.got[c] \in {<<ScoreUnder(c, c)>>,
                                                      <<ScoreUnder(c, Other(c))>>}

\* On a shared engine, a caller has its score computed with the weights of
\* the domain the other caller selected, and that is not its own score.
C19_Witness ==
    /\ callers # <<>>
    /\ callers.shared
    /\ \E c \in Callers :
          /\ callers.pc[c] = "done"
          /\ callers.got[c] = <<ScoreUnder(c, Other(c))>>
          /\ ScoreUnder(c, Other(c)) # ScoreUnder(c, c)

\* With an engine each, both callers have finished with their own scores,
\* which the other caller's domain would not have given.
C19_SeparateWitness ==
    /\ callers # <<>>
    /\ ~callers.shared
    /\ \A c \in Callers :
          /\ callers.pc[c] = "done"
          /\ callers.got[c] = <<ScoreUnder(c, c)>>
          /\ ScoreUnder(c, Other(c)) # ScoreUnder(c, c)

(***************************************************************************)
(* The order of work of the unconstrained policy                           *)
(***************************************************************************)
\* The features the unconstrained policy selects from the diagnosis held.
SelectedFeatures ==
    {diag[1].feature_tests[i].feature :
        i \in {j \in DOMAIN diag[1].feature_tests : IsTarget(diag[1].feature_tests[j])}}

\* The change planned for a category, from the caller's dataset as it was
\* before any removal.
PlannedChange(f, g) ==
    PlanChange(CountOf(df, f, g), NRows(df), Cardinality(Categories(df, f)))

\* The rows of the returned dataset that were in the caller's dataset, and
\* the rows the i-th addition appended behind them.
PostRemoval ==
    [cols |-> df.cols,
     rows |-> SubSeq(out.ret[1].rows, 1, NRows(df) - out.total_removed)]

Appended(i) ==
    LET start == NRows(PostRemoval) + SeqSum([j \in 1..(i - 1) |-> out.added[j].n])
    IN  SubSeq(out.ret[1].rows, start + 1, start + out.added[i].n)

Occurrences(rows, v) == Cardinality({i \in DOMAIN rows : rows[i] = v})

\* C21: in the unconstrained policy every amount is the one planned on the
\* dataset before the removals; the removals are one deletion in which a row
\* drawn by several pairs goes once; the additions come behind it, are rows
\* of the category as the deletion left it, at most 1000 per pair, and a
\* category the deletion emptied receives none.
C21_RemovalsThenAdditions ==
    SurgicalDone =>
        /\ \A i \in DOMAIN out.removed :
              LET e == out.removed[i]
              IN  /\ e.feature \in SelectedFeatures
                  /\ PlannedChange(e.feature, e.group) < 0
                  /\ e.planned = -PlannedChange(e.feature, e.group)
                  /\ e.n = e.planned
                  /\ e.n <= out.total_removed
        /\ \A f \in SelectedFeatures : \A g \in Categories(df, f) :
              PlannedChange(f, g) < 0 =>
                  \E i \in DOMAIN out.removed :
                      out.removed[i].feature = f /\ out.removed[i].group = g
        /\ out.total_removed <= SumN(out.removed)
        /\ NRows(out.ret[1]) = NRows(df) - out.total_removed + SumN(out.added)
        /\ \A v \in Range(df.rows) :
              Occurrences(PostRemoval.rows, v) <= Occurrences(df.rows, v)
        /\ \A f \in SelectedFeatures : \A g \in Categories(df, f) :
              PlannedChange(f, g) > 0 =>
                  IF CountOf(PostRemoval, f, g) > 0
                  THEN \E i \in DOMAIN out.added :
                          out.added[i] = [feature |-> f, group |-> g,
                                          n |-> Min(PlannedChange(f, g), AdditionCap)]
                  ELSE \A i \in DOMAIN out.added :
                          ~(out.added[i].feature = f /\ out.added[i].group = g)
        /\ \A i \in DOMAIN out.added :
              /\ out.added[i].feature \in SelectedFeatures
              /\ PlannedChange(out.added[i].feature, out.added[i].group) > 0
              /\ out.added[i].n <= AdditionCap
              /\ \A j \in DOMAIN Appended(i) :
                    /\ Appended(i)[j][out.added[i].feature] = out.added[i].group
                    /\ Appended(i)[j] \in Range(PostRemoval.rows)

\* Two removals drew a row in common, the deletion emptied a category that
\* had an addition planned, and another category received its addition.
C21_Witness ==
    /\ SurgicalDone
    /\ out.total_removed < SumN(out.removed)
    /\ \E f \in SelectedFeatures : \E g \in Categories(df, f) :
          /\ PlannedChange(f, g) > 0
          /\ CountOf(PostRemoval, f, g) = 0
    /\ out.added # <<>>

(***************************************************************************)
(* The budget-constrained policy                                           *)
(***************************************************************************)
\* Proposal i of the last budget-constrained call was executed.
Applied(i) ==
    \E r \in DOMAIN out.removed :
        /\ out.removed[r].feature = out.proposed[i].feature
        /\ out.removed[r].group = out.proposed[i].group

\* The rows the executed proposals before proposal i asked for.
RunningTotal(i) ==
    SeqSum([j \in 1..(i - 1) |-> IF Applied(j) THEN out.proposed[j].n ELSE 0])

\* C22: the budget-constrained policy takes the proposals in their order;
\* a proposal that fits the budget left is executed with exactly its number
\* of rows, one that does not fit is left out whole, proposals behind a
\* left-out one are still executed when they fit, and the running total
\* never exceeds the budget.
C22_ProposalsWholeOrSkipped ==
    IndustryDone =>
        LET budget == TotalRemovalBudget(NRows(df), MaxDataLossUsed)
        IN  /\ \A i \in DOMAIN out.proposed :
                  Applied(i) <=> RunningTotal(i) + out.proposed[i].n <= budget
            /\ \A i \in DOMAIN out.proposed : RunningTotal(i) <= budget
            /\ \A r \in DOMAIN out.removed :
                  /\ out.removed[r].n = out.removed[r].planned
                  /\ \E i \in DOMAIN out.proposed :
                        out.proposed[i] = [feature |-> out.removed[r].feature,
                                           group |-> out.removed[r].group,
                                           n |-> out.removed[r].n]
            /\ \A r, q \in DOMAIN out.removed :
                  r < q => \E i, j \in DOMAIN out.proposed :
                              /\ i < j
                              /\ out.proposed[i].feature = out.removed[r].feature
                              /\ out.proposed[i].group = out.removed[r].group
                              /\ out.proposed[j].feature = out.removed[q].feature
                              /\ out.proposed[j].group = out.removed[q].group
            /\ SumN(out.removed) <= budget
            /\ out.total_removed <= SumN(out.removed)

\* A proposal was left out and a later, smaller one was executed.
C22_Witness ==
    /\ IndustryDone
    /\ \E i, j \in DOMAIN out.proposed :
          /\ i < j
          /\ ~Applied(i)
          /\ Applied(j)
          /\ out.proposed[j].n < out.proposed[i].n

\* C23: the budget is floor(N * maxDataLoss); the proposals listed are those
\* for the categories of the selected features whose proportion is strictly
\* greater than 1.2 / #categories, each of
\* min(floor(size * ((proportion - expected) / proportion) * 0.3),
\* floor(budget * 0.5)) rows, and none of 0 rows.
C23_ProposalsForStrictExcess ==
    IndustryDone =>
        LET N == NRows(df)
            budget == (N * MaxDataLossUsed) \div 100
            k(f) == Cardinality(Categories(df, f))
            c(f, g) == CountOf(df, f, g)
            n(f, g) == Min((3 * (c(f, g) * k(f) - N)) \div (10 * k(f)), budget \div 2)
        IN  /\ SumN(out.removed) <= budget
            /\ Range(out.proposed) =
                   {[feature |-> f[1], group |-> f[2], n |-> n(f[1], f[2])] :
                       f \in {x \in UNION {{<<y, g>> : g \in Categories(df, y)} :
                                              y \in SelectedFeatures} :
                                 /\ 10 * c(x[1], x[2]) * k(x[1]) > 12 * N
                                 /\ n(x[1], x[2]) > 0}}

\* The features the diagnosis held flags significant.
FlaggedFeatures ==
    {diag[1].feature_tests[i].feature :
        i \in {j \in DOMAIN diag[1].feature_tests : diag[1].feature_tests[j].significant_bias}}

\* The categories of the flagged features below 0.8 of the expected
\* proportion after the removals, and the rows they need:
\* floor(size * expected * ((expected - proportion) / expected) * 0.8).
Deficient ==
    {x \in UNION {{<<f, g>> : g \in Categories(PostRemoval, f)} :
                     f \in FlaggedFeatures \cap df.cols} :
        10 * CountOf(PostRemoval, x[1], x[2]) * Cardinality(Categories(PostRemoval, x[1]))
            < 8 * NRows(PostRemoval)}

Needed(x) ==
    LET k == Cardinality(Categories(PostRemoval, x[1]))
    IN  (8 * (NRows(PostRemoval) - CountOf(PostRemoval, x[1], x[2]) * k)) \div (10 * k)

\* min(nNeeded, 3 * size) with two rows or more, min(nNeeded, 10) with one.
Duplicates(x) ==
    IF CountOf(PostRemoval, x[1], x[2]) >= 2
    THEN Min(Needed(x), 3 * CountOf(PostRemoval, x[1], x[2]))
    ELSE Min(Needed(x), 10)

GroupRows(f, g) ==
    SelectIdx(PostRemoval.rows, LAMBDA i : PostRemoval.rows[i][f] = g, 1)

\* Row copy is row src with the weighted and the non-numeric columns as
\* they were and every other numeric value v at v * (1 + f), |f| <= bound%.
CopyOf(copy, src, bound) ==
    \A col \in df.cols :
        IF col \in NumericColumns /\ ~InMap(domain_weights, col)
        THEN /\ 100 * Abs(copy[col] - src[col]) <= bound * Abs(src[col])
             /\ (src[col] = 0) = (copy[col] = 0)
             /\ (src[col] > 0) = (copy[col] > 0)
        ELSE copy[col] = src[col]

\* The j-th row of addition i copies row (j - 1) mod size of its category.
CopiesInTurn(i, bound3) ==
    LET G == GroupRows(out.added[i].feature, out.added[i].group)
    IN  /\ G # <<>>
        /\ \A j \in 1..out.added[i].n :
              CopyOf(Appended(i)[j], G[((j - 1) % Len(G)) + 1],
                     IF Len(G) = 1 THEN 10 ELSE 5)
        /\ out.added[i].n <= IF Len(G) = 1 THEN bound3 ELSE 3 * Len(G)

\* C25 (as stated): every synthesized row copies a row of its category in
\* turn, no row more than 3 times; weighted and non-numeric columns are
\* copied exactly, other numeric values stay within 5% (10% for a
\* single-row category), zero stays zero and the sign is kept.
C25_NoRowCopiedMoreThanThrice ==
    IndustryDone => \A i \in DOMAIN out.added : CopiesInTurn(i, 3)

\* C25 (amended): as stated, except that the only row of a single-row
\* category is copied up to 10 times; in a category of two rows or more no
\* row is copied more than 3 times.
C25_CopiesOfCategoryRows ==
    IndustryDone => \A i \in DOMAIN out.added : CopiesInTurn(i, 10)

\* The only row of a category was copied four times, with a negative
\* numeric value changed and its weighted numeric column kept.
C25_Witness ==
    /\ IndustryDone
    /\ \E i \in DOMAIN out.added :
          /\ Len(GroupRows(out.added[i].feature, out.added[i].group)) = 1
          /\ out.added[i].n = 4
          /\ "Age" \in df.cols
          /\ \E j \in 1..4 :
                /\ Appended(i)[j]["Income"] < 0
                /\ Appended(i)[j]["Income"]
                       # GroupRows(out.added[i].feature, out.added[i].group)[1]["Income"]
                /\ Appended(i)[j]["Age"] = 40

(***************************************************************************)
(* The validators                                                          *)
(***************************************************************************)
\* The Wasserstein distance between the category-proportion vector of a
\* column and the uniform vector of the same length: the mean over the
\* categories of |proportion - 1 / #categories|.
DistanceToUniform(d, f) ==
    LET counts == ObservedCounts(d, f)
        k == Len(counts)
    IN  Rat(SeqSum([i \in 1..k |-> Abs(counts[i] * k - NRows(d))]), k * k * NRows(d))

\* (distBefore - distAfter) / distBefore * 100, and 0 when distBefore = 0.
ImprovementPercent(f) ==
    LET before == DistanceToUniform(df, f)
        after == DistanceToUniform(df_after[1], f)
    IN  IF before.num = 0 THEN Rat(0, 1)
        ELSE RatMul(RatDiv(RatSub(before, after), before), Rat(100, 1))

\* The flagged features in the order of the diagnosis, each with its
\* improvement.
FlaggedImprovements ==
    LET ts == diag[1].feature_tests
        flagged == SelectIdx(ts, LAMBDA i : ts[i].significant_bias, 1)
    IN  [i \in DOMAIN flagged |-> <<flagged[i].feature, ImprovementPercent(flagged[i].feature)>>]

\* C26: both validators report, for exactly the flagged features, the
\* improvement of the distance between the proportion vector and the
\* uniform vector of its own length, and validate_improvement reports the
\* mean of the improvements, 0 when there is none.
C26_ImprovementAgainstOwnUniform ==
    /\ (out.op = "validate_improvement" /\ out.error = "") =>
           /\ out.ret[1].wasserstein_improvements = FlaggedImprovements
           /\ out.ret[1].overall_wasserstein_improvement =
                  IF FlaggedImprovements = <<>> THEN Rat(0, 1)
                  ELSE RatMul(RatSum([i \in DOMAIN FlaggedImprovements |->
                                         FlaggedImprovements[i][2]]),
                              Rat(1, Len(FlaggedImprovements)))
    /\ (out.op = "validate_industry_readiness" /\ out.error = "") =>
           out.ret[1].fairness_improvement = FlaggedImprovements


\* Ethnicity with the counts 26, 4 and a Region, balanced, that tells the
\* rows of a category apart.
TellApartDatasets ==
    {Frame({"Ethnicity", "Region"},
           Blocks(<< <<Row2("A", "N"), 13>>, <<Row2("A", "S"), 13>>,
                     <<Row2("B", "N"), 2>>, <<Row2("B", "S"), 2>> >>))}

\* One feature with a category above N/k, one at N/k and one below.
UniformityDatasets == {CountsFrame("Ethnicity", <<38, 20, 2>>)}

PolicyDatasets == BudgetDatasets \cup TellApartDatasets \cup UniformityDatasets

InitPolicies ==
    /\ weights = load_domain_weights
    /\ domain = "None"
    /\ domain_weights = <<>>
    /\ detected_biases = <<>>
    /\ mitigation_impact = <<>>
    /\ df \in PolicyDatasets
    /\ diag = <<>>
    /\ df_after = <<>>
    /\ out = Raised("init", "", "")
    /\ last_fit = "None"
    /\ instances = <<>>
    /\ callers = <<>>

\* Both policies, called directly on the same engine.
NextPolicies == Fit \/ Diagnose \/ IndustrySmoteDirect \/ EvidenceBasedRebalancing

SpecPolicies == InitPolicies /\ [][NextPolicies]_vars

PolicyDone ==
    /\ out.op \in {"_evidence_based_rebalancing", "_industry_smote_rebalancing"}
    /\ out.error = ""

\* Every result the call that was made could have given, over the samples
\* and the jitter it could have drawn.
PolicyOutcomes ==
    IF out.op = "_evidence_based_rebalancing"
    THEN SurgicalResults(df, diag[1], WindowSamples, StrideSamples)
    ELSE IndustryResults(df, diag[1], out.arg.max_data_loss, domain_weights, WindowSamples)

\* C27: when the diagnosis flags exactly one feature, every result a policy
\* can give for the dataset has the size of the result it gave and as many
\* rows in each category of that feature, whatever rows were drawn and
\* whatever the jitter was; and two results made from the same draws are the
\* same dataset.
C27_CountsIndependentOfDraws ==
    (PolicyDone /\ Cardinality(FlaggedFeatures) = 1)
        => LET f == CHOOSE x \in FlaggedFeatures : TRUE
           IN  /\ \A r \in PolicyOutcomes :
                     /\ r.error = ""
                     /\ NRows(r.data) = NRows(out.ret[1])
                     /\ \A g \in Categories(df, f) :
                           CountOf(r.data, f, g) = CountOf(out.ret[1], f, g)
               /\ \A r1, r2 \in PolicyOutcomes :
                     r1.draws = r2.draws => r1.data = r2.data

\* The budget policy removed rows and made synthetic rows for the one flagged
\* feature, and other draws give another dataset.
C27_Witness ==
    /\ PolicyDone
    /\ Cardinality(FlaggedFeatures) = 1
    /\ out.op = "_industry_smote_rebalancing"
    /\ out.total_removed > 0
    /\ out.added # <<>>
    /\ \E r \in PolicyOutcomes : r.data # out.ret[1]

\* The unconstrained policy removed and duplicated rows for the one flagged
\* feature, and other draws give another dataset.
C27_SurgicalWitness ==
    /\ PolicyDone
    /\ Cardinality(FlaggedFeatures) = 1
    /\ out.op = "_evidence_based_rebalancing"
    /\ out.total_removed > 0
    /\ out.added # <<>>
    /\ \E r \in PolicyOutcomes : r.data # out.ret[1]


\* Mode strings other than 'industry': the documented ones and an unknown one.
OtherModes == {"strict", "moderate", "soft", "unknown"}

TransformReturned == out.op = "transform" /\ out.error = ""

\* Every result transform_industry(df, diagnostic_results) can give.
TransformIndustryOutcomes ==
    industry_smote_rebalancing(df, diag[1], DefaultMaxDataLoss, domain_weights)

\* The result r is the one the last call returned.
IsOutcome(r) ==
    /\ r.error = ""
    /\ r.data = out.ret[1]
    /\ r.removed = out.removed
    /\ r.total_removed = out.total_removed
    /\ r.added = out.added
    /\ r.proposed = out.proposed

\* C28: what transform(df, 'industry', diagnosis) returned is a result of the
\* budget policy at max_data_loss 0.08, and for the same draws transform
\* with 'industry' and transform_industry give the same result; what
\* transform returned under any other mode is a result of the unconstrained
\* policy, and every other mode string gives the same results for the same
\* draws.
C28_TransformDispatch ==
    TransformReturned
        => IF out.arg.mode = "industry"
           THEN /\ df_corrected("industry", diag[1]) = TransformIndustryOutcomes
                /\ \E r \in TransformIndustryOutcomes : IsOutcome(r)
                /\ out.total_removed <= TotalRemovalBudget(NRows(df), 8)
           ELSE /\ \A m \in OtherModes :
                      df_corrected(m, diag[1]) = evidence_based_rebalancing(df, diag[1])
                /\ \E r \in evidence_based_rebalancing(df, diag[1]) : IsOutcome(r)

\* transform(df, 'soft', diagnosis) removed rows, as the unconstrained policy
\* does.
C28_Witness ==
    /\ TransformReturned
    /\ out.arg.mode = "soft"
    /\ out.total_removed > 0

\* transform(df, 'industry', diagnosis) removed a row within the budget of 8%.
C28_IndustryWitness ==
    /\ TransformReturned
    /\ out.arg.mode = "industry"
    /\ out.total_removed > 0


\* C29: when the unconstrained policy has run with exactly one selected
\* feature of k categories on N rows, a category that had more than N/k rows
\* has at least N/k, a category that had fewer has at most N/k and gained
\* fewer rows than 0.8 times its size, and a category that had N/k rows has
\* as many as before.
C29_NoOvershoot ==
    (SurgicalDone /\ Cardinality(SelectedFeatures) = 1)
        => LET f == CHOOSE x \in SelectedFeatures : TRUE
               N == NRows(df)
               k == Cardinality(Categories(df, f))
           IN  \A g \in Categories(df, f) :
                  LET before == CountOf(df, f, g)
                      after == CountOf(out.ret[1], f, g)
                  IN  /\ before * k > N => after * k >= N
                      /\ before * k < N => /\ after * k <= N
                                           /\ after >= before
                                           /\ 10 * (after - before) < 8 * before
                      /\ before * k = N => after = before

\* One selected feature with a category that lost rows, a category that
\* gained rows and a category that had exactly N/k rows.
C29_Witness ==
    /\ SurgicalDone
    /\ Cardinality(SelectedFeatures) = 1
    /\ LET f == CHOOSE x \in SelectedFeatures : TRUE
           N == NRows(df)
           k == Cardinality(Categories(df, f))
       IN  /\ \E g \in Categories(df, f) :
                 CountOf(df, f, g) * k > N /\ CountOf(out.ret[1], f, g) < CountOf(df, f, g)
           /\ \E g \in Categories(df, f) :
                 CountOf(df, f, g) * k < N /\ CountOf(out.ret[1], f, g) > CountOf(df, f, g)
           /\ \E g \in Categories(df, f) : CountOf(df, f, g) * k = N


(***************************************************************************)
(* The validators on any pair of datasets: the caller diagnoses a dataset   *)
(* and hands the validators a second dataset of the same columns, whatever  *)
(* made it.                                                                 *)
(***************************************************************************)
\* Twelve rows like those of ThresholdDatasets, with Ethnicity 4, 4, 4.
BalancedDatasets ==
    {Frame({"Ethnicity", "Region"},
           Blocks(<< <<Row2("A", "N"), 4>>, <<Row2("B", "N"), 4>>, <<Row2("C", "S"), 4>> >>))}

ValidationDatasets ==
    SmallDatasets \cup ThresholdDatasets \cup BalancedDatasets
        \cup {Frame({"Income"}, <<[Income |-> 100], [Income |-> 200]>>),
              Frame({"Income"}, <<[Income |-> 100]>>)}

InitValidation ==
    /\ weights = load_domain_weights
    /\ domain = "None"
    /\ domain_weights = <<>>
    /\ detected_biases = <<>>
    /\ mitigation_impact = <<>>
    /\ df \in ValidationDatasets
    /\ diag = <<>>
    /\ df_after = <<>>
    /\ out = Raised("init", "", "")
    /\ last_fit = "None"
    /\ instances = <<>>
    /\ callers = <<>>

\* The caller's second dataset, the df_after argument of the validators.
SupplyAfter ==
    /\ diag # <<>>
    /\ df_after = <<>>
    /\ \E d \in ValidationDatasets :
          /\ d.cols = df.cols
          /\ df_after' = <<d>>
    /\ UNCHANGED <<engine, df, sharing, diag, out, last_fit>>

NextValidation ==
    Fit \/ Diagnose \/ SupplyAfter \/ ValidateImprovement \/ ValidateIndustryReadiness

SpecValidation == InitValidation /\ [][NextValidation]_vars

\* C30: when the diagnosis flags no feature, validate_industry_readiness has
\* no improvement to average and reports neither a meaningful fairness gain
\* nor production readiness, whatever the two datasets are, and
\* validate_improvement reports an overall improvement of 0.
C30_NothingFlaggedNeverReady ==
    (diag # <<>> /\ FlaggedFeatures = {})
        => /\ out.op = "validate_industry_readiness"
                 => /\ out.ret[1].fairness_improvement = <<>>
                    /\ ~out.ret[1].metrics.meaningful_fairness_gain
                    /\ ~out.ret[1].metrics.production_ready
           /\ (out.op = "validate_improvement" /\ out.error = "")
                 => /\ out.ret[1].wasserstein_improvements = <<>>
                    /\ out.ret[1].overall_wasserstein_improvement = Rat(0, 1)

\* Nothing flagged and the second dataset equal to the first: all records
\* retained, and not production ready.
C30_Witness ==
    /\ diag # <<>>
    /\ FlaggedFeatures = {}
    /\ out.op = "validate_industry_readiness"
    /\ df_after = <<df>>
    /\ out.ret[1].metrics.retention_rate = Rat(100, 1)
    /\ out.ret[1].metrics.meets_data_retention
    /\ ~out.ret[1].metrics.production_ready

\* Nothing flagged and a second dataset of another size.
C30_OtherPairWitness ==
    /\ diag # <<>>
    /\ FlaggedFeatures = {}
    /\ out.op = "validate_improvement"
    /\ out.error = ""
    /\ NRows(df_after[1]) # NRows(df)

====
